---- MODULE Spec2Model ----
(***************************************************************************)
(* State-machine model of the DaLeoBanks agent core:                       *)
(*   - services/crisis.py    CrisisService (pause state machine)           *)
(*   - services/x_client.py  XClient._execute_write, CircuitBreaker        *)
(*   - services/multiplexer.py _XAdapter.publish                           *)
(*   - config.py             update_config / reset_config                  *)
(*   - runner.py             outbound jobs (guard, then publish)           *)
(* Floats are modelled as integers: sentiment in {-1,0,1}, velocity and    *)
(* authority as small naturals, so signal = |sentiment|*velocity*authority *)
(* is an integer on the same scale as signal_threshold (12) and            *)
(* resume_threshold (6).                                                   *)
(***************************************************************************)
EXTENDS Integers, Sequences, FiniteSets, TLC

(***************************************************************************)
(* Bounds of the model and program constants.                              *)
(***************************************************************************)
MaxVelocity == 4
MaxAuthority == 3
MaxCalm == 2
SignalThreshold == 12
ResumeThreshold == SignalThreshold \div 2

None == "None"
Sources == {"mentions", "analytics"}
Sentiments == {-1, 0, 1}
Velocities == {-1, 0} \cup (2 .. MaxVelocity)
Authorities == {0, 1, MaxAuthority}
Platforms == {"x", "mastodon"}
ManualReasons == {"manual_toggle"}

MaxKeys == 1
MaxResets == 2
MaxTime == 7
MaxWrites == 2
MaxFailures == 2
MaxVersion == 3
MaxPayloadVersion == 2
MaxRows == 2
MaxMtime == 1
MaxItems == 2
MaxTweets == 2
MaxScore == 2
MaxIdLen == 2
MaxMentions == 2
MaxEvents == 3
RewardUnit == 2
MaxPulls == 3
MaxMinutes == 26
MaxTargets == 2
MaxDay == 1440
MaxSegments == 3
TextLen == 6
MaxPublished == 2
MaxNotes == 102
MaxClock == 2
MaxUncounted == 1
DefaultJScore == 0
DefaultAlpha == 2
DefaultBeta == 2
MIN_INTENSITY_LEVEL == 1
MAX_INTENSITY_LEVEL == 4
PenaltyStep == 4
PenaltyDoubleStep == 8
LowJ == 35
HighJ == 65
AuthorityStep == 60
SUCCESS_J_THRESHOLD == 60
REGRESSION_J_THRESHOLD == 25
MaxInstances == 1
MixLow == 95
MixHigh == 105
MaxHandleLen == 15
max_calls_per_hour == 100
max_calls_per_day == 1000
HoursPerDay == 24
FailureThreshold == 5
ResetTimeout == 5
MaxWriteAttempts == 5
BackoffCap == 60

Procs == {1, 2}
Endpoints == {"create_tweet", "like"}
Keys == 1 .. MaxKeys
NoKey == 0
NoTime == 0 - 1
NoScore == 0 - 1
NoLevel == 0 - 1
NoPost == 0 - 1
DryRunId == 0
Outcomes == {"ok", "rate_limited", "error", "timeout"}

\* Optional[T]: the empty set is None, a singleton is a value.
Opt(S) == {{}} \cup {{x} : x \in S}
Get(o, dflt) == IF o = {} THEN dflt ELSE CHOOSE x \in o : TRUE
Max(a, b) == IF a >= b THEN a ELSE b
Min(a, b) == IF a <= b THEN a ELSE b
Abs(a) == IF a < 0 THEN 0 - a ELSE a

\* A receipt map {platform -> SocialPostResult}: a set of receipts, one per platform.
Receipt == [platform : Platforms, dry_run : BOOLEAN]
ReceiptMaps ==
    {rs \in SUBSET Receipt :
        \A r1 \in rs, r2 \in rs : r1.platform = r2.platform => r1 = r2}

VARIABLES
    active,              \* CrisisService._active
    reason,              \* CrisisService._reason
    metrics,             \* CrisisService._metrics
    last_signal,         \* CrisisService._last_signal
    last_receipts,       \* CrisisService._last_receipts
    receipts_validated,  \* CrisisService._receipts_validated
    upc,                 \* per metric source: "idle", or "publishing" while
                         \* _escalate awaits multiplexer.publish
    op,                  \* the operation that made the last step
    ret_signal,          \* the signal returned by the last update_metrics
    calm_published       \* calming publishes made since PAUSED was last entered

VARIABLES
    env_live,            \* os.environ LIVE, read by _build_config
    configs,             \* LIVE of every Config instance built so far
    cur,                 \* config._CONFIG_INSTANCE: index of the shared instance
    client,              \* XClient.client is not None
    client_config,       \* XClient.config: the instance the client holds
    adapter_config,      \* _XAdapter._config: the instance the adapter holds
    idempotency_cache,   \* XClient.idempotency_cache (keys of the dict)
    circuit_breakers,    \* XClient.circuit_breakers
    now,                 \* datetime.now(), in minutes
    pc,                  \* per write call: "idle", "calling" (awaiting the
                         \* platform call) or "sleeping" (awaiting the backoff)
    call,                \* per write call: endpoint, idempotency key, attempt,
                         \* get_config().LIVE as it was at the call's entry,
                         \* and the platform calls started so far
    wev,                 \* the last event of the write path (with the length
                         \* of the backoff sleep it starts, in seconds)
    writes,              \* per key: writes the platform has performed
    done_since_flip,     \* keys whose write has succeeded since LIVE was last
                         \* switched off or the client was built
    jpc                  \* per outbound job run: "idle", "guarded" (the guard
                         \* passed, content is being generated), "publishing"

VARIABLES
    persona_file,        \* persona.json: its content and its mtime
    current_persona,     \* PersonaStore.current_persona
    current_version,     \* PersonaStore.current_version
    last_modified,       \* PersonaStore._last_modified
    current_hash,        \* PersonaStore._current_hash
    versions,            \* the PersonaVersion rows, in insertion order
    pop,                 \* the last PersonaStore operation and its outcome
    pret                 \* the document that operation returned, if any

VARIABLES
    runs,                \* per starter of job runs (the scheduler's entry of
                         \* each job, the initial-activity task): the run in
                         \* progress
    ended,               \* the last run that returned: its job, what the
                         \* guard told it, whether the generator refused it
    initial              \* where the initial_activity task stands

VARIABLES
    tweets,              \* the Tweet rows, by id
    arms_log             \* the ArmsLog rows, by the id of their tweet

VARIABLES
    last_state,          \* PerceptionService._last_state["x_mentions_since_id"]
    perception_state,    \* the runner's _perception_state, the same key
    sensed_events,       \* the number of SensedEvent rows
    last_event,          \* the payload of the last SensedEvent: the number
                         \* of items recorded per source
    pin                  \* the last ingest call: whether it had a client, the
                         \* sources that failed, the mentions returned

VARIABLES
    bandit,              \* ThompsonBandit._state of the selector: per arm,
                         \* alpha and beta in units of 1/RewardUnit, and pulls
    last_actions,        \* Selector.last_actions: per action type, the minute
                         \* it was last selected
    last_arm,            \* Selector._last_arm
    last_intensity_by_action,    \* Selector._last_intensity_by_action
    last_successful_intensity,   \* Selector._last_successful_intensity
    recent_dm_targets,   \* Selector._recent_dm_targets: per target, the minute
                         \* of mark_dm_sent
    utcnow,              \* datetime.now(UTC), in minutes
    decision,            \* what the last decide_next_action returned
    adaptive_intensity,  \* config.ADAPTIVE_INTENSITY, read from the environment
                         \* at start-up
    dm_run,              \* the value_dm_job in progress: its step, its
                         \* recipient
    dm_log               \* per target, the minute x_client.send_dm last
                         \* returned success, and the time before that

VARIABLES
    platform_mode,       \* config.PLATFORM_MODE, with Mastodon enabled when it
                         \* is not broadcast
    thread,              \* the publish_thread_job in progress: its step, the
                         \* number of its posts, the segment being published,
                         \* previous_tweet_id, posted_ids
    calls                \* the multiplexer.publish calls of the last thread
                         \* run, in order, each with what it returned and the
                         \* ref_tweet_id of the Tweet row it led to

VARIABLES
    tweet_texts,         \* the text column of the Tweet rows created within
                         \* the last duplicate_check_days
    proposal,            \* the post_proposal_job in progress: its step and
                         \* the content the generator returned
    published            \* history: the texts written non-dry-run, in order,
                         \* each with the path that published it

VARIABLES
    ragebait_guard,      \* config.RAGEBAIT_GUARD
    gated,               \* the proposal make_proposal returned to the job, not
                         \* yet published, with its intensity
    last_posted          \* history: the last proposal written non-dry-run

VARIABLES
    notes,               \* _STORE[Note]: the stored notes in list order, each
                         \* the number of the addition that made it
    notes_added,         \* history: the number of notes added so far
    note_result          \* how the last addition ended

VARIABLES
    budget,              \* LLMAdapter.budget: the two counters and the two
                         \* reset times, in hours
    chat_pc,             \* per caller: where its chat call stands
    chat_ret,            \* per caller: how its last chat call ended
    clock,               \* datetime.now(), in hours
    hour_made,           \* history: provider calls made since hour_reset_time
    day_made             \* history: provider calls made since day_reset_time

crisisVars == <<active, reason, metrics, last_signal, last_receipts,
                receipts_validated, upc, op, ret_signal, calm_published>>

configVars == <<env_live, configs, cur>>
clientVars == <<client, client_config, adapter_config, idempotency_cache,
                circuit_breakers, pc, call, wev, writes, done_since_flip>>
writeVars == <<configVars, clientVars, now>>

personaVars == <<persona_file, current_persona, current_version, last_modified,
                 current_hash, versions, pop, pret>>
runnerVars == <<runs, ended, initial>>
analyticsVars == <<tweets, arms_log>>
perceptionVars == <<last_state, perception_state, sensed_events, last_event, pin>>
threadVars == <<platform_mode, thread, calls>>
publishVars == <<tweet_texts, proposal, published>>
receiptVars == <<ragebait_guard, gated, last_posted>>
notesVars == <<notes, notes_added, note_result>>
llmVars == <<budget, chat_pc, chat_ret, clock, hour_made, day_made>>
selectorVars == <<bandit, last_actions, last_arm, last_intensity_by_action,
                  last_successful_intensity, recent_dm_targets, utcnow,
                  decision, adaptive_intensity, dm_run, dm_log>>
vars == <<crisisVars, writeVars, jpc, personaVars, runnerVars,
         analyticsVars,
         perceptionVars,
         selectorVars,
         threadVars,
         publishVars,
         receiptVars,
         notesVars,
         llmVars>>

(***************************************************************************)
(* CrisisService                                                           *)
(***************************************************************************)
\* _compute_signal
_compute_signal(m) ==
    IF m.sentiment >= 0 THEN 0
    ELSE IF m.velocity <= 0 \/ Max(m.authority, 0) <= 0 THEN 0
    ELSE Abs(m.sentiment) * m.velocity * Max(m.authority, 0)

\* _should_escalate
_should_escalate(signal) == signal >= SignalThreshold

\* _validate_receipts
_validate_receipts(receipts) == \E r \in receipts : ~r.dry_run

\* variants of _recover_ready with one of its two tests dropped or tightened
_recover_ready_unvalidated(signal) == signal <= ResumeThreshold
_recover_ready_strict(signal) == signal < ResumeThreshold /\ receipts_validated

\* _recover_ready with the comparison of the signal reversed
_recover_ready_reversed(signal) == signal >= ResumeThreshold /\ receipts_validated

\* the condition under which _maybe_recover resolves
_recover_ready(signal) == signal <= ResumeThreshold /\ receipts_validated

\* the metrics after update_metrics has stored its arguments
StoreMetrics(m, sentiment, velocity, authority) ==
    [sentiment |-> Get(sentiment, m.sentiment),
     velocity  |-> IF velocity = {} THEN m.velocity ELSE Max(0, Get(velocity, 0)),
     authority |-> IF authority = {} THEN m.authority ELSE Max(0, Get(authority, 0))]

\* _reset_after_resolution, applied to the metrics
ResetMetrics(m) == [m EXCEPT !.sentiment = 0, !.velocity = 0]

CrisisInit ==
    /\ active = FALSE
    /\ reason = None
    /\ metrics = [sentiment |-> 0, velocity |-> 0, authority |-> 1]
    /\ last_signal = 0
    /\ last_receipts = {}
    /\ receipts_validated = FALSE
    /\ upc = [s \in Sources |-> "idle"]
    /\ op = "init"
    /\ ret_signal = 0
    /\ calm_published = 0

\* activate(reason), called by app.set_crisis with active=true
Activate(r) ==
    /\ active' = TRUE
    /\ reason' = r
    /\ receipts_validated' = FALSE
    /\ op' = "activate"
    /\ calm_published' = IF active THEN calm_published ELSE 0
    /\ UNCHANGED <<metrics, last_signal, last_receipts, upc, ret_signal>>
    /\ UNCHANGED <<writeVars, jpc, personaVars, runnerVars, analyticsVars,
                   perceptionVars, selectorVars, threadVars, publishVars,
                   receiptVars, notesVars, llmVars>>

\* resolve(), called by app.set_crisis with active=false
Resolve ==
    /\ active' = FALSE
    /\ reason' = None
    /\ last_signal' = 0
    /\ last_receipts' = {}
    /\ receipts_validated' = FALSE
    /\ metrics' = ResetMetrics(metrics)
    /\ op' = "resolve"
    /\ calm_published' = 0
    /\ UNCHANGED <<upc, ret_signal>>
    /\ UNCHANGED <<writeVars, jpc, personaVars, runnerVars, analyticsVars,
                   perceptionVars, selectorVars, threadVars, publishVars,
                   receiptVars, notesVars, llmVars>>

\* record_receipts(receipts), called from outside the service
RecordReceipts(receipts) ==
    /\ IF _validate_receipts(receipts)
       THEN last_receipts' = receipts /\ receipts_validated' = TRUE
       ELSE UNCHANGED <<last_receipts, receipts_validated>>
    /\ op' = "record_receipts"
    /\ UNCHANGED <<active, reason, metrics, last_signal, upc, ret_signal,
                   calm_published>>
    /\ UNCHANGED <<writeVars, jpc, personaVars, runnerVars, analyticsVars,
                   perceptionVars, selectorVars, threadVars, publishVars,
                   receiptVars, notesVars, llmVars>>

\* variant of _escalate_enters without the test of _active
_escalate_enters_always(isActive) == TRUE

\* _escalate acts only when the service is not yet active (crisis.py:235)
_escalate_enters(isActive) == ~isActive

\* update_metrics up to its first suspension point: the metrics and the signal
\* are stored, then _escalate runs up to "await multiplexer.publish" (or to its
\* end when it has nothing to publish), or _maybe_recover runs.
UpdateMetrics(source, sentiment, velocity, authority, hasMux) ==
    LET m == StoreMetrics(metrics, sentiment, velocity, authority)
        signal == _compute_signal(m)
    IN  /\ upc[source] = "idle"
        /\ UNCHANGED <<writeVars, jpc, personaVars, runnerVars, analyticsVars,
                       perceptionVars, selectorVars, threadVars, publishVars,
                       receiptVars, notesVars, llmVars>>
        /\ ret_signal' = signal
        /\ IF _should_escalate(signal)
           THEN IF _escalate_enters(active)
                THEN \* _escalate: activate, then publish the calming message
                     /\ active' = TRUE
                     /\ reason' = source \o "_signal"  \* the formatted signal
                                                       \* is left out of the text
                     /\ receipts_validated' = FALSE
                     /\ metrics' = m
                     /\ last_signal' = signal
                     /\ UNCHANGED last_receipts
                     /\ IF hasMux
                        THEN /\ upc' = [upc EXCEPT ![source] = "publishing"]
                             /\ calm_published' =
                                   IF ~active THEN 1
                                   ELSE IF calm_published < MaxCalm
                                        THEN calm_published + 1 ELSE MaxCalm
                             /\ op' = "update_escalate"
                        ELSE /\ UNCHANGED upc
                             /\ calm_published' = IF ~active THEN 0 ELSE calm_published
                             /\ op' = "update_escalate_nomux"
                ELSE /\ metrics' = m
                     /\ last_signal' = signal
                     /\ op' = "update_hold"
                     /\ UNCHANGED <<active, reason, receipts_validated,
                                    last_receipts, upc, calm_published>>
           ELSE IF active /\ _recover_ready(signal)
                THEN \* _maybe_recover -> resolve
                     /\ active' = FALSE
                     /\ reason' = None
                     /\ last_signal' = 0
                     /\ last_receipts' = {}
                     /\ receipts_validated' = FALSE
                     /\ metrics' = ResetMetrics(m)
                     /\ calm_published' = 0
                     /\ op' = "update_recover"
                     /\ UNCHANGED upc
                ELSE /\ metrics' = m
                     /\ last_signal' = signal
                     /\ op' = "update_hold"
                     /\ UNCHANGED <<active, reason, receipts_validated,
                                    last_receipts, upc, calm_published>>

\* evaluate_mentions: sentiment is the mean score, velocity the supplied count,
\* authority the maximum of the stored authority and the estimate (>= 1).
EvaluateMentions(sentiment, velocity, estimate) ==
    /\ UpdateMetrics("mentions", {sentiment}, {velocity},
                     {Max(metrics.authority, Max(1, estimate))}, TRUE)

\* the rest of _escalate, after multiplexer.publish has returned `receipts`
\* (the empty map when it raised)
_escalate_finish(source, receipts) ==
    /\ upc[source] = "publishing"
    /\ upc' = [upc EXCEPT ![source] = "idle"]
    /\ IF receipts # {}
       THEN IF _validate_receipts(receipts)
            THEN last_receipts' = receipts /\ receipts_validated' = TRUE
            ELSE UNCHANGED <<last_receipts, receipts_validated>>
       ELSE receipts_validated' = FALSE /\ UNCHANGED last_receipts
    /\ op' = "escalate_finish"
    /\ UNCHANGED <<active, reason, metrics, last_signal, ret_signal,
                   calm_published>>

\* the same step where the texts that reach the platforms are not followed
EscalateFinish(source, receipts) ==
    /\ _escalate_finish(source, receipts)
    /\ UNCHANGED <<writeVars, jpc, personaVars, runnerVars, analyticsVars,
                   perceptionVars, selectorVars, threadVars, publishVars,
                   receiptVars, notesVars, llmVars>>

\* whether a multiplexer is supplied; the choice only matters when the update
\* escalates from NORMAL
MuxChoices(sentiment, velocity, authority) ==
    IF _escalate_enters(active) /\ _should_escalate(
           _compute_signal(StoreMetrics(metrics, sentiment, velocity, authority)))
    THEN BOOLEAN ELSE {TRUE}

\* CrisisService.guard
guard == ~active

\* The argument shapes update_metrics is called with: all three metrics
\* (evaluate_mentions, the tests), velocity and authority without sentiment
\* (analytics_pull_job), or none of them.
MetricArgs ==
    (Opt(Sentiments) \X {{v} : v \in Velocities} \X {{a} : a \in Authorities})
        \cup {<<{}, {}, {}>>}

\* update_metrics called by a job or directly
UpdateMetricsCall(source, sentiment, velocity, authority, hasMux) ==
    /\ hasMux \in MuxChoices(sentiment, velocity, authority)
    /\ UpdateMetrics(source, sentiment, velocity, authority, hasMux)

CrisisNext ==
    \/ \E r \in ManualReasons : Activate(r)
    \/ Resolve
    \/ \E rs \in ReceiptMaps : RecordReceipts(rs)
    \/ \E s \in Sources, args \in MetricArgs, mux \in BOOLEAN :
          UpdateMetricsCall(s, args[1], args[2], args[3], mux)
    \/ \E se \in Sentiments, v \in Velocities, e \in Authorities :
          EvaluateMentions(se, v, e)
    \/ \E s \in Sources, rs \in ReceiptMaps : EscalateFinish(s, rs)

(***************************************************************************)
(* config.py: the shared Config instance and its listeners                 *)
(***************************************************************************)
\* get_config().LIVE
Live == configs[cur]

ConfigInit(envLive) ==
    /\ env_live = envLive
    /\ cur = 0
    /\ configs = [i \in 0 .. MaxResets |-> IF i = 0 THEN env_live ELSE FALSE]

\* XClient._on_config_update: the cache is cleared when LIVE is in the changes
\* and the configuration passed in has LIVE off.
_on_config_update(cache, liveChanged, cfgLive) ==
    IF liveChanged /\ ~cfgLive THEN {} ELSE cache

(***************************************************************************)
(* x_client.py: CircuitBreaker                                             *)
(***************************************************************************)
\* `consecutive` is not a field of the class: it records how many failures
\* were recorded since the last recorded success (counted up to the threshold)
NewBreaker == [present |-> TRUE, failure_count |-> 0, last_failure_time |-> NoTime,
               consecutive |-> 0]
NoBreaker == [present |-> FALSE, failure_count |-> 0, last_failure_time |-> NoTime,
              consecutive |-> 0]

\* whether reset_timeout has passed since the last failure (x_client.py:30)
TimedOut(b, t) ==
    b.last_failure_time # NoTime /\ t - b.last_failure_time > ResetTimeout

\* CircuitBreaker.is_open: the value returned
is_open(b, t) ==
    IF b.failure_count < FailureThreshold THEN FALSE
    ELSE IF TimedOut(b, t) THEN FALSE
    ELSE TRUE

\* variant of AfterIsOpen that clears the count whether or not reset_timeout
\* has passed
AfterIsOpenResetsEarly(b, t) == [b EXCEPT !.failure_count = 0]

\* CircuitBreaker.is_open: the breaker it leaves behind
AfterIsOpen(b, t) ==
    IF b.failure_count >= FailureThreshold /\ TimedOut(b, t)
    THEN [b EXCEPT !.failure_count = 0] ELSE b

\* _check_circuit_breaker: creates the breaker when missing, then asks is_open
AfterCheck(b, t) == AfterIsOpen(IF b.present THEN b ELSE NewBreaker, t)
_check_circuit_breaker(b, t) == ~is_open(IF b.present THEN b ELSE NewBreaker, t)

\* _record_success: only for an endpoint that has a breaker
_record_success(b) ==
    IF b.present
    THEN [b EXCEPT !.failure_count = 0, !.last_failure_time = NoTime,
                   !.consecutive = 0]
    ELSE b

\* variant of _record_failure that notes the time but not the count
_record_failure_uncounted(b, t) ==
    [b EXCEPT !.present = TRUE, !.last_failure_time = t]

\* _record_failure: creates the breaker when missing
_record_failure(b, t) ==
    [present |-> TRUE, failure_count |-> b.failure_count + 1,
     last_failure_time |-> t,
     consecutive |-> IF b.consecutive < FailureThreshold
                     THEN b.consecutive + 1 ELSE b.consecutive]

(***************************************************************************)
(* x_client.py: XClient._execute_write, reached through                    *)
(* _XAdapter.publish -> create_tweet (with metadata's idempotency_key) or  *)
(* directly through like (no key: a fresh one is generated per call).      *)
(***************************************************************************)
NoCall == [endpoint |-> "none", key |-> NoKey, attempt |-> 0, live |-> FALSE,
           calls |-> 0]
Event(kind, p, e, k, real) ==
    [kind |-> kind, proc |-> p, endpoint |-> e, key |-> k, real |-> real,
     sleep |-> 0]

\* a cache that never answers
CacheNeverHit(cache, e, k) == FALSE

\* "key_tuple in self.idempotency_cache"; a generated key is never in it
CacheHit(cache, e, k) == k # NoKey /\ <<e, k>> \in cache

\* "self.idempotency_cache[key_tuple] = True"; an entry under a generated key
\* can never be hit again and is not kept in the model
CachePut(cache, e, k) == IF k # NoKey THEN cache \cup {<<e, k>>} ELSE cache

\* "require_live and not self.config.LIVE" (require_live is True in every caller)
LiveOff == ~configs[client_config]

\* _XAdapter.publish returns a dry run before it reaches the client
AdapterDryRun(e) == e = "create_tweet" /\ ~configs[adapter_config]

\* variant of LoopContinues that never gives up
LoopNeverEnds(attempt) == TRUE

\* the retry loop re-enters the platform call while attempts remain
LoopContinues(attempt) == attempt < MaxWriteAttempts

\* random.random() lies in [0, 1): the model takes its two bounds, in seconds
Jitter == {0, 1}

\* backoff_seconds = min(60.0, 2 ** attempt + random.random())
Backoff(attempt, jitter) ==
    IF 2 ^ attempt + jitter < BackoffCap THEN 2 ^ attempt + jitter ELSE BackoffCap

ClientInit ==
    /\ client = TRUE
    /\ client_config = 0
    /\ adapter_config = 0
    /\ idempotency_cache = {}
    /\ circuit_breakers = [e \in Endpoints |-> NoBreaker]
    /\ pc = [p \in Procs |-> "idle"]
    /\ call = [p \in Procs |-> NoCall]
    /\ wev = Event("init", 0, "none", NoKey, FALSE)
    /\ writes = [k \in Keys |-> 0]
    /\ done_since_flip = {}
    /\ now = 0

\* A write call from its entry to its first suspension point: the feature
\* toggle, LIVE, the client and the circuit breaker, the idempotency cache,
\* then the first pass of the retry loop up to the awaited platform call.
_execute_write(p, e, k, enabled) ==
    /\ pc[p] = "idle"
    /\ UNCHANGED <<configVars, client, client_config, adapter_config,
                   idempotency_cache, writes, done_since_flip, now>>
    /\ IF AdapterDryRun(e) \/ ~enabled \/ LiveOff \/ ~client
       THEN /\ wev' = Event("begin_default", p, e, k, FALSE)
            /\ UNCHANGED <<circuit_breakers, pc, call>>
       ELSE /\ circuit_breakers' =
                   [circuit_breakers EXCEPT ![e] = AfterCheck(@, now)]
            /\ IF ~_check_circuit_breaker(circuit_breakers[e], now)
                  \/ CacheHit(idempotency_cache, e, k)
               THEN /\ wev' = Event("begin_default", p, e, k, FALSE)
                    /\ UNCHANGED <<pc, call>>
               ELSE /\ pc' = [pc EXCEPT ![p] = "calling"]
                    /\ call' = [call EXCEPT ![p] =
                                   [endpoint |-> e, key |-> k, attempt |-> 0,
                                    live |-> Live, calls |-> 1]]
                    /\ wev' = Event("begin_call", p, e, k, FALSE)

\* a write call made directly on the client or the adapter
WriteBegin(p, e, k, enabled) ==
    /\ _execute_write(p, e, k, enabled)
    /\ UNCHANGED <<crisisVars, jpc, personaVars, runnerVars, analyticsVars,
                   perceptionVars, selectorVars, threadVars, publishVars,
                   receiptVars, notesVars, llmVars>>

\* the platform has performed the write
Landed(k) ==
    IF k # NoKey
    THEN [writes EXCEPT ![k] = IF @ < MaxWrites THEN @ + 1 ELSE @]
    ELSE writes

\* The awaited platform call ends: with a result, with tweepy.TooManyRequests,
\* with another exception, or with the wait_for timeout (the worker thread is
\* not cancelled, so the platform may still perform the write: `landed`).
CallReturn(p, outcome, landed) ==
    LET e == call[p].endpoint
        k == call[p].key
    IN  /\ pc[p] = "calling"
        /\ landed => outcome = "timeout"
        /\ UNCHANGED <<configVars, client, client_config, adapter_config, now>>
        /\ UNCHANGED <<crisisVars, jpc, personaVars, runnerVars, analyticsVars,
                       perceptionVars, selectorVars, threadVars, publishVars,
                       receiptVars, notesVars, llmVars>>
        /\ CASE outcome = "ok" ->
                  /\ circuit_breakers' =
                        [circuit_breakers EXCEPT ![e] = _record_success(@)]
                  /\ idempotency_cache' = CachePut(idempotency_cache, e, k)
                  /\ done_since_flip' = CachePut(done_since_flip, e, k)
                  /\ writes' = Landed(k)
                  /\ pc' = [pc EXCEPT ![p] = "idle"]
                  /\ call' = [call EXCEPT ![p] = NoCall]
                  /\ wev' = Event("return", p, e, k, TRUE)
             [] outcome = "rate_limited" ->
                  /\ circuit_breakers' =
                        [circuit_breakers EXCEPT ![e] = _record_failure(@, now)]
                  /\ call' = [call EXCEPT ![p].attempt = @ + 1]
                  /\ pc' = [pc EXCEPT ![p] = "sleeping"]
                  /\ \E j \in Jitter :
                        wev' = [Event("rate_limited", p, e, k, FALSE)
                                   EXCEPT !.sleep = Backoff(call[p].attempt + 1, j)]
                  /\ UNCHANGED <<idempotency_cache, done_since_flip, writes>>
             [] outcome \in {"error", "timeout"} ->
                  /\ circuit_breakers' =
                        [circuit_breakers EXCEPT ![e] = _record_failure(@, now)]
                  /\ writes' = IF outcome = "timeout" /\ landed
                               THEN Landed(k) ELSE writes
                  /\ pc' = [pc EXCEPT ![p] = "idle"]
                  /\ call' = [call EXCEPT ![p] = NoCall]
                  /\ wev' = Event("failed", p, e, k, FALSE)
                  /\ UNCHANGED <<idempotency_cache, done_since_flip>>

\* The backoff sleep ends and the loop goes round: out of attempts, or LIVE
\* switched off mid-flight, or the next platform call.
SleepDone(p) ==
    LET e == call[p].endpoint
        k == call[p].key
    IN  /\ pc[p] = "sleeping"
        /\ UNCHANGED <<crisisVars, jpc, personaVars, runnerVars, analyticsVars,
                       perceptionVars, selectorVars, threadVars, publishVars,
                       receiptVars, notesVars, llmVars>>
        /\ UNCHANGED <<configVars, client, client_config, adapter_config,
                       idempotency_cache, circuit_breakers, writes,
                       done_since_flip, now>>
        /\ IF LoopContinues(call[p].attempt) /\ ~LiveOff
           THEN /\ pc' = [pc EXCEPT ![p] = "calling"]
                /\ wev' = Event("retry_call", p, e, k, FALSE)
                /\ call' = [call EXCEPT ![p].calls = @ + 1]
           ELSE /\ pc' = [pc EXCEPT ![p] = "idle"]
                /\ call' = [call EXCEPT ![p] = NoCall]
                /\ wev' = Event("return", p, e, k, FALSE)

\* update_config(LIVE=value): the shared instance is changed in place and the
\* listeners are told, unless the value is the current one.
UpdateConfigLive(value) ==
    /\ Live # value
    /\ configs' = [configs EXCEPT ![cur] = value]
    /\ idempotency_cache' = _on_config_update(idempotency_cache, TRUE, value)
    /\ done_since_flip' = IF value THEN done_since_flip ELSE {}
    /\ wev' = Event(IF value THEN "live_on" ELSE "live_off", 0, "none", NoKey, FALSE)
    /\ UNCHANGED <<env_live, cur, client, client_config, adapter_config,
                   circuit_breakers, pc, call, writes, now>>
    /\ UNCHANGED <<crisisVars, jpc, personaVars, runnerVars, analyticsVars,
                   perceptionVars, selectorVars, threadVars, publishVars,
                   receiptVars, notesVars, llmVars>>

\* reset_config(): a new instance is built from the environment and becomes
\* the shared one; the listeners are told {"__reset__": True}.
ResetConfig ==
    /\ cur < MaxResets
    /\ cur' = cur + 1
    /\ configs' = [configs EXCEPT ![cur + 1] = env_live]
    /\ idempotency_cache' = _on_config_update(idempotency_cache, FALSE, env_live)
    /\ wev' = Event("reset_config", 0, "none", NoKey, FALSE)
    /\ UNCHANGED <<env_live, client, client_config, adapter_config,
                   circuit_breakers, pc, call, writes, done_since_flip, now>>
    /\ UNCHANGED <<crisisVars, jpc, personaVars, runnerVars, analyticsVars,
                   perceptionVars, selectorVars, threadVars, publishVars,
                   receiptVars, notesVars, llmVars>>

\* XClient() and SocialMultiplexer(config=get_config(), x_client=...) are built
\* anew (app.py:61-67, runner.py:42-46): both hold the instance shared now.
NewClient(hasClient) ==
    /\ \A p \in Procs : pc[p] = "idle"
    /\ client' = hasClient
    /\ client_config' = cur
    /\ adapter_config' = cur
    /\ idempotency_cache' = {}
    /\ done_since_flip' = {}
    /\ circuit_breakers' = [e \in Endpoints |-> NoBreaker]
    /\ wev' = Event("new_client", 0, "none", NoKey, FALSE)
    /\ UNCHANGED <<configVars, pc, call, writes, now>>
    /\ UNCHANGED <<crisisVars, jpc, personaVars, runnerVars, analyticsVars,
                   perceptionVars, selectorVars, threadVars, publishVars,
                   receiptVars, notesVars, llmVars>>

\* time passes
Tick(d) ==
    /\ now + d <= MaxTime
    /\ now' = now + d
    /\ UNCHANGED <<configVars, clientVars, crisisVars, jpc, personaVars, runnerVars,
                   analyticsVars, perceptionVars, selectorVars, threadVars,
                   publishVars, receiptVars, notesVars, llmVars>>

(***************************************************************************)
(* services/persona_store.py: PersonaSchema and PersonaStore.              *)
(* A persona document is modelled by the fields validation and versioning  *)
(* read: version, the sum of content_mix in hundredths, the length of the  *)
(* handle and whether it is alphanumeric, the shape of beliefs, and        *)
(* whether the optional fields are present.                                *)
(***************************************************************************)
HandleLens == {0, MaxHandleLen, MaxHandleLen + 1}
\* a handle's length and whether str.isalnum() holds of it (never of "")
Handles == {h \in HandleLens \X BOOLEAN : h[1] = 0 => ~h[2]}
BeliefShapes == {"none", "blank", "ok"}

Doc(version, mix, hlen, alnum, beliefs, optionals) ==
    [version |-> version, mix |-> mix, hlen |-> hlen, alnum |-> alnum,
     beliefs |-> beliefs, optionals |-> optionals]

\* a document that passes validation
GoodDoc(version, mix, optionals) ==
    Doc(version, mix, MaxHandleLen, TRUE, "ok", optionals)

\* the place of a document where there is none
NoDoc == Doc(0, 0, 0, FALSE, "none", FALSE)

\* PersonaSchema.validate_content_mix
validate_content_mix(mix) == MixLow <= mix /\ mix <= MixHigh

\* PersonaSchema.validate_beliefs: no empty list, no blank belief
validate_beliefs(beliefs) == beliefs = "ok"

\* PersonaSchema.validate_handle
validate_handle(hlen, alnum) == hlen # 0 /\ hlen <= MaxHandleLen /\ alnum

\* variant of PassesSchema without the content_mix validator
PassesSchemaButMix(d) ==
    validate_beliefs(d.beliefs) /\ validate_handle(d.hlen, d.alnum)

\* PersonaSchema(**persona_data) raises no ValidationError
PassesSchema(d) ==
    /\ validate_content_mix(d.mix)
    /\ validate_beliefs(d.beliefs)
    /\ validate_handle(d.hlen, d.alnum)

\* validate_persona's result, persona_schema.dict(): the optional fields are
\* filled in with their defaults
validate_persona(d) == [d EXCEPT !.optionals = TRUE]

\* _calculate_hash: SHA-256 of the canonical JSON, taken as free of collisions
_calculate_hash(d) == d

\* the payloads the model draws from: valid documents, and the documents
\* with one field off
Payloads ==
    {GoodDoc(v, MixLow, TRUE) : v \in 1 .. MaxPayloadVersion}
        \cup {GoodDoc(1, MixHigh, FALSE)}
        \cup {GoodDoc(1, m, TRUE) : m \in {MixLow - 1, MixHigh + 1}}
        \cup {Doc(1, MixLow, h[1], h[2], "ok", TRUE) : h \in Handles}
        \cup {Doc(1, MixLow, MaxHandleLen, TRUE, b, TRUE) : b \in BeliefShapes}

\* what an outside writer leaves in persona.json: a valid document, one that
\* fails validation, or (NoDoc) text that does not parse
FileContents ==
    {GoodDoc(v, MixLow, TRUE) : v \in 1 .. MaxPayloadVersion}
        \cup {GoodDoc(1, MixHigh, FALSE), GoodDoc(1, MixHigh + 1, TRUE), NoDoc}

\* what is on disk: a parsable document, text json.load rejects, or no file
FileDoc(d, mtime) == [kind |-> "doc", doc |-> d, mtime |-> mtime]
FileGarbage(mtime) == [kind |-> "garbage", doc |-> NoDoc, mtime |-> mtime]
FileMissing(mtime) == [kind |-> "missing", doc |-> NoDoc, mtime |-> mtime]

\* _has_file_changed
_has_file_changed ==
    IF persona_file.kind = "missing" THEN FALSE
    ELSE IF persona_file.mtime > last_modified THEN TRUE
    ELSE IF persona_file.kind = "garbage" THEN FALSE
    ELSE _calculate_hash(persona_file.doc) # current_hash

\* variant of LoadSucceeds that does not validate what it parsed
LoadSucceedsUnvalidated == persona_file.kind = "doc"

\* load_persona reaches its end: the file exists, parses and validates
LoadSucceeds == persona_file.kind = "doc" /\ PassesSchema(persona_file.doc)

\* the state load_persona leaves: the validated document on success, the
\* cached one otherwise
load_persona ==
    IF LoadSucceeds
    THEN /\ current_persona' = validate_persona(persona_file.doc)
         /\ current_version' = persona_file.doc.version
         /\ last_modified' = persona_file.mtime
         /\ current_hash' = _calculate_hash(validate_persona(persona_file.doc))
    ELSE UNCHANGED <<current_persona, current_version, last_modified,
                     current_hash>>

\* PersonaStore(): the file holds a valid version 1 and is loaded
PersonaInit ==
    /\ persona_file = FileDoc(GoodDoc(1, MixLow, FALSE), 0)
    /\ current_persona = validate_persona(GoodDoc(1, MixLow, FALSE))
    /\ current_version = 1
    /\ last_modified = 0
    /\ current_hash = _calculate_hash(validate_persona(GoodDoc(1, MixLow, FALSE)))
    /\ versions = <<>>
    /\ pop = "init"
    /\ pret = NoDoc

\* load_persona called by the application (startup, reload)
LoadPersona ==
    /\ load_persona
    /\ pop' = IF LoadSucceeds THEN "load" ELSE "load_cached"
    /\ pret' = current_persona'
    /\ UNCHANGED <<persona_file, versions>>
    /\ UNCHANGED <<crisisVars, writeVars, jpc, runnerVars, analyticsVars,
                   perceptionVars, selectorVars, threadVars, publishVars,
                   receiptVars, notesVars, llmVars>>

\* get_current_persona
GetCurrentPersona ==
    /\ IF _has_file_changed
       THEN load_persona
       ELSE UNCHANGED <<current_persona, current_version, last_modified,
                        current_hash>>
    /\ pop' = "get"
    /\ pret' = current_persona'
    /\ UNCHANGED <<persona_file, versions>>
    /\ UNCHANGED <<crisisVars, writeVars, jpc, runnerVars, analyticsVars,
                   perceptionVars, selectorVars, threadVars, publishVars,
                   receiptVars, notesVars, llmVars>>

\* the version update_persona gives the new document
NextVersion(payload) == payload.version + 1

\* the steps of update_persona after the version row is stored that can
\* raise: writing persona.json.tmp, the rename, reading the mtime back
Faults == {"write_tmp", "replace", "getmtime"}
NoFault == "none"

\* update_persona(payload); `how` names the caller, `fault` the step that
\* raises. session.add has stored the row before any of them runs, and the
\* session's rollback removes nothing. The renamed file's mtime is read back
\* into _last_modified at once, so the store's own write is not made to move
\* the clock: mtime counts the outside writes that did.
update_persona(payload, how, fault) ==
    IF ~PassesSchema(payload)
    THEN /\ pop' = how \o "_rejected"
         /\ pret' = NoDoc
         /\ UNCHANGED <<persona_file, current_persona, current_version,
                        last_modified, current_hash, versions>>
    ELSE LET new == [validate_persona(payload) EXCEPT
                        !.version = NextVersion(payload)]
             mtime == persona_file.mtime
             renamed == fault \in {NoFault, "getmtime"}
         IN  /\ versions' = Append(versions, new)
             /\ persona_file' = IF renamed THEN FileDoc(new, mtime)
                                ELSE persona_file
             /\ current_persona' = IF renamed THEN new ELSE current_persona
             /\ current_version' = IF renamed THEN new.version
                                   ELSE current_version
             /\ last_modified' = IF fault = NoFault THEN mtime
                                 ELSE last_modified
             /\ current_hash' = IF fault = NoFault THEN _calculate_hash(new)
                                ELSE current_hash
             /\ pop' = IF fault = NoFault THEN how ELSE how \o "_failed"
             /\ pret' = NoDoc

\* update_persona running to its end
ApplyUpdate(payload, how) == update_persona(payload, how, NoFault)

\* update_persona(payload, actor)
UpdatePersona(payload) ==
    /\ Len(versions) < MaxRows
    /\ NextVersion(payload) <= MaxVersion
    /\ ApplyUpdate(payload, "update")
    /\ UNCHANGED <<crisisVars, writeVars, jpc, runnerVars, analyticsVars,
                   perceptionVars, selectorVars, threadVars, publishVars,
                   receiptVars, notesVars, llmVars>>

\* the rows whose version is v, in insertion order
RowsOf(v) == SelectSeq(versions, LAMBDA r : r.version = v)

\* rollback_to_version(v): the first row with that version, given the current
\* version, goes through update_persona
RollbackToVersion(v) ==
    /\ Len(versions) < MaxRows
    /\ current_version + 1 <= MaxVersion
    /\ IF RowsOf(v) = <<>>
       THEN /\ pop' = "rollback_not_found"
            /\ pret' = NoDoc
            /\ UNCHANGED <<persona_file, current_persona, current_version,
                           last_modified, current_hash, versions>>
       ELSE ApplyUpdate([Head(RowsOf(v)) EXCEPT !.version = current_version],
                        "rollback")
    /\ UNCHANGED <<crisisVars, writeVars, jpc, runnerVars, analyticsVars,
                   perceptionVars, selectorVars, threadVars, publishVars,
                   receiptVars, notesVars, llmVars>>

\* update_persona(payload, actor) raising after validation
UpdatePersonaFails(payload, fault) ==
    /\ Len(versions) < MaxRows
    /\ NextVersion(payload) <= MaxVersion
    /\ PassesSchema(payload)
    /\ update_persona(payload, "update", fault)
    /\ UNCHANGED <<crisisVars, writeVars, jpc, runnerVars, analyticsVars,
                   perceptionVars, selectorVars, threadVars, publishVars,
                   receiptVars, notesVars, llmVars>>

\* somebody else writes persona.json (an editor, a deployment): any document,
\* or text that does not parse (a write caught half-way)
FileWrite(content, moved) ==
    /\ moved => persona_file.mtime < MaxMtime
    /\ LET mtime == IF moved THEN persona_file.mtime + 1 ELSE persona_file.mtime
       IN  persona_file' = IF content = NoDoc THEN FileGarbage(mtime)
                           ELSE FileDoc(content, mtime)
    /\ pop' = "file_write"
    /\ pret' = NoDoc
    /\ UNCHANGED <<current_persona, current_version, last_modified,
                   current_hash, versions>>
    /\ UNCHANGED <<crisisVars, writeVars, jpc, runnerVars, analyticsVars,
                   perceptionVars, selectorVars, threadVars, publishVars,
                   receiptVars, notesVars, llmVars>>

\* somebody removes persona.json
FileRemove ==
    /\ persona_file.kind # "missing"
    /\ persona_file' = FileMissing(persona_file.mtime)
    /\ pop' = "file_remove"
    /\ pret' = NoDoc
    /\ UNCHANGED <<current_persona, current_version, last_modified,
                   current_hash, versions>>
    /\ UNCHANGED <<crisisVars, writeVars, jpc, runnerVars, analyticsVars,
                   perceptionVars, selectorVars, threadVars, publishVars,
                   receiptVars, notesVars, llmVars>>

\* the persona store under the admin API, its readers and outside writes
PersonaNext ==
    \/ GetCurrentPersona
    \/ LoadPersona
    \/ \E d \in Payloads : UpdatePersona(d)
    \/ \E f \in Faults : UpdatePersonaFails(GoodDoc(1, MixLow, TRUE), f)
    \/ \E v \in 1 .. MaxVersion : RollbackToVersion(v)
    \/ \E d \in FileContents, m \in BOOLEAN : FileWrite(d, m)
    \/ FileRemove

(***************************************************************************)
(* runner.py: the scheduler's jobs, the initial-activity task and the      *)
(* outbound jobs' control flow. The event loop runs one coroutine at a     *)
(* time, so a step is what a job does from one await to the next; the      *)
(* step of a run names the call it is awaiting.                            *)
(***************************************************************************)
Jobs == {"post_proposal", "reply_mentions", "search_engage", "value_dm"}
Starters == Jobs \cup {"initial"}

\* the jobs that stop at the LIVE flag before anything else
LiveCheckedJobs == {"reply_mentions", "search_engage"}
\* the jobs that deal with one piece of content per run
SingleContentJobs == {"post_proposal", "value_dm"}

\* no run yet
NoRun ==
    [job |-> "none", step |-> "idle", item |-> 0, items |-> 0,
     guard |-> "none", gen_error |-> FALSE, item_error |-> FALSE]

\* the job function returns
EndOf(r) == [r EXCEPT !.step = "idle"]

\* what is kept of a run that returned
Summary(r) == [job |-> r.job, guard |-> r.guard, gen_error |-> r.gen_error]

RunnerInit ==
    /\ runs = [s \in Starters |-> NoRun]
    /\ ended = Summary(NoRun)
    /\ initial = "start"

\* variant of AfterGuard that goes on whatever the guard returned
AfterGuardIgnored(r, ok) ==
    [r EXCEPT !.guard = IF ok THEN "true" ELSE "false", !.step = "selecting"]

\* `if not crisis_service.guard(action=...): return`, then
\* `await selector.decide_next_action()`
AfterGuard(r, ok) ==
    IF ok THEN [r EXCEPT !.guard = "true", !.step = "selecting"]
    ELSE EndOf([r EXCEPT !.guard = "false"])

\* a job function from its call to its first await or its early return;
\* dms is config.ENABLE_DMS
FirstSegment(j, dms) ==
    LET r == [NoRun EXCEPT !.job = j]
    IN  IF j \in LiveCheckedJobs /\ ~Live THEN EndOf(r)
        ELSE IF j = "value_dm" /\ ~dms THEN EndOf(r)
        ELSE AfterGuard(r, guard)

\* the run of starter s goes on as rec, or has returned; when the run the
\* initial-activity task awaits has returned, the task goes on to `after`
Settle(s, rec, during, after) ==
    /\ runs' = [runs EXCEPT ![s] = IF rec.step = "idle" THEN NoRun ELSE rec]
    /\ ended' = IF rec.step = "idle" THEN Summary(rec) ELSE ended
    /\ initial' = IF s # "initial" THEN initial
                  ELSE IF rec.step = "idle" THEN after ELSE during

\* what the initial-activity task does once the job it awaits has returned
AfterJob(phase) == IF phase = "post" THEN "sleep2" ELSE "done"

\* a later step of the run of starter s
Proceed(s, rec) == Settle(s, rec, initial, AfterJob(initial))

\* the scheduler's instances of job j that are running
Instances(j) == IF runs[j].step = "idle" THEN 0 ELSE 1

\* the trigger of job j fires: the scheduler submits the job unless
\* max_instances of it are running
SchedulerTrigger(j, dms) ==
    /\ Instances(j) < MaxInstances
    /\ Settle(j, FirstSegment(j, dms), initial, initial)
    /\ UNCHANGED <<crisisVars, writeVars, jpc, personaVars, analyticsVars,
                   perceptionVars, selectorVars, threadVars, publishVars,
                   receiptVars, notesVars, llmVars>>

\* initial_activity() up to its first sleep
InitialStart ==
    /\ initial = "start"
    /\ initial' = IF Live THEN "sleep1" ELSE "done"
    /\ UNCHANGED <<runs, ended>>
    /\ UNCHANGED <<crisisVars, writeVars, jpc, personaVars, analyticsVars,
                   perceptionVars, selectorVars, threadVars, publishVars,
                   receiptVars, notesVars, llmVars>>

\* the first sleep is over: `await post_proposal_job()`
InitialPost ==
    /\ initial = "sleep1"
    /\ Settle("initial", FirstSegment("post_proposal", TRUE), "post", "sleep2")
    /\ UNCHANGED <<crisisVars, writeVars, jpc, personaVars, analyticsVars,
                   perceptionVars, selectorVars, threadVars, publishVars,
                   receiptVars, notesVars, llmVars>>

\* the second sleep is over: `await reply_mentions_job()`
InitialReply ==
    /\ initial = "sleep2"
    /\ Settle("initial", FirstSegment("reply_mentions", TRUE), "reply", "done")
    /\ UNCHANGED <<crisisVars, writeVars, jpc, personaVars, analyticsVars,
                   perceptionVars, selectorVars, threadVars, publishVars,
                   receiptVars, notesVars, llmVars>>

\* the calls a job may make for an item it has just taken up
FirstCalls(j) ==
    IF j = "search_engage" THEN {"liking", "reposting", "generating"}
    ELSE {"generating"}

\* the calls search_and_engage_job may still make for a tweet after a like
\* or a repost
CallsAfter(step) ==
    IF step = "liking" THEN {"reposting", "generating"}
    ELSE IF step = "reposting" THEN {"generating"}
    ELSE {}

\* the run takes up its next item, if there is one, and ends otherwise
NextItem(r) ==
    IF r.item < r.items
    THEN {[r EXCEPT !.item = r.item + 1, !.step = c, !.item_error = FALSE] :
             c \in FirstCalls(r.job)}
    ELSE {EndOf(r)}

\* selector.decide_next_action() returns; chosen: the action is this job's
\* type; ready: value_dm_job found a recipient
SelectReturns(s, chosen, ready) ==
    /\ runs[s].step = "selecting"
    /\ LET r == runs[s]
       IN  Proceed(s,
             IF ~chosen THEN EndOf(r)
             ELSE IF r.job = "post_proposal" THEN [r EXCEPT !.step = "generating"]
             ELSE IF r.job = "reply_mentions" THEN [r EXCEPT !.step = "fetching"]
             ELSE IF r.job = "search_engage" THEN [r EXCEPT !.step = "searching"]
             ELSE IF ready THEN [r EXCEPT !.step = "generating"]
             ELSE EndOf(r))
    /\ UNCHANGED <<crisisVars, writeVars, jpc, personaVars, analyticsVars,
                   perceptionVars, selectorVars, threadVars, publishVars,
                   receiptVars, notesVars, llmVars>>

\* x_client.get_mentions() or x_client.search_recent() returns n items the
\* job will act on
FetchReturns(s, n) ==
    /\ runs[s].step \in {"fetching", "searching"}
    /\ \E rec \in NextItem([runs[s] EXCEPT !.items = n]) : Proceed(s, rec)
    /\ UNCHANGED <<crisisVars, writeVars, jpc, personaVars, analyticsVars,
                   perceptionVars, selectorVars, threadVars, publishVars,
                   receiptVars, notesVars, llmVars>>

\* variant of AfterGeneratorError: the job goes on to publish
AfterGeneratorErrorPublishes(r) == {[r EXCEPT !.step = "publishing"]}

\* `if "error" in result`: the single-content jobs return, the loops go on
\* to their next item
AfterGeneratorError(r) ==
    IF r.job \in SingleContentJobs THEN {EndOf(r)} ELSE NextItem(r)

\* the generator returns; err: a structured error; sendable: value_dm_job
\* has a text, LIVE is on and the client is healthy
GenerateReturns(s, err, sendable) ==
    /\ runs[s].step = "generating"
    /\ LET r == runs[s]
       IN  IF err
           THEN \E rec \in AfterGeneratorError(
                              [r EXCEPT !.gen_error = TRUE, !.item_error = TRUE]) :
                   Proceed(s, rec)
           ELSE Proceed(s,
                  IF r.job # "value_dm" THEN [r EXCEPT !.step = "publishing"]
                  ELSE IF sendable /\ Live THEN [r EXCEPT !.step = "sending"]
                  ELSE EndOf(r))
    /\ UNCHANGED <<crisisVars, writeVars, jpc, personaVars, analyticsVars,
                   perceptionVars, selectorVars, threadVars, publishVars,
                   receiptVars, notesVars, llmVars>>

\* x_client.like() or x_client.repost() returns
EngageReturns(s) ==
    /\ runs[s].step \in {"liking", "reposting"}
    /\ \E rec \in {[runs[s] EXCEPT !.step = c] : c \in CallsAfter(runs[s].step)}
                     \cup NextItem(runs[s]) :
          Proceed(s, rec)
    /\ UNCHANGED <<crisisVars, writeVars, jpc, personaVars, analyticsVars,
                   perceptionVars, selectorVars, threadVars, publishVars,
                   receiptVars, notesVars, llmVars>>

\* multiplexer.publish() or x_client.send_dm() returns, or raises
PublishReturns(s) ==
    /\ runs[s].step \in {"publishing", "sending"}
    /\ \E rec \in (IF runs[s].job \in SingleContentJobs THEN {EndOf(runs[s])}
                   ELSE NextItem(runs[s])) :
          Proceed(s, rec)
    /\ UNCHANGED <<crisisVars, writeVars, jpc, personaVars, analyticsVars,
                   perceptionVars, selectorVars, threadVars, publishVars,
                   receiptVars, notesVars, llmVars>>

\* no job run is in progress
Quiet == \A s \in Starters : runs[s].step = "idle"

\* a trigger that fires between the runs of the other jobs
TriggerWhenQuiet(j, dms) == Quiet /\ SchedulerTrigger(j, dms)

\* the steps of the runs in progress, but for likes and reposts
ContentSteps ==
    \/ \E s \in Starters, c \in BOOLEAN, r \in BOOLEAN : SelectReturns(s, c, r)
    \/ \E s \in Starters, n \in 0 .. MaxItems : FetchReturns(s, n)
    \/ \E s \in Starters, e \in BOOLEAN, d \in BOOLEAN : GenerateReturns(s, e, d)
    \/ \E s \in Starters : PublishReturns(s)

\* the scheduler and the initial-activity task, for the two jobs the task
\* calls, with crisis mode switched by the operator
RunnerNext ==
    \/ \E j \in {"post_proposal", "reply_mentions"} : SchedulerTrigger(j, TRUE)
    \/ InitialStart
    \/ InitialPost
    \/ InitialReply
    \/ ContentSteps
    \/ \E r \in ManualReasons : Activate(r)
    \/ Resolve

\* the outbound jobs one run at a time (runs share nothing but crisis mode
\* and LIVE, which the operator switches between their steps)
OutboundNext ==
    \/ \E j \in Jobs, dms \in BOOLEAN : TriggerWhenQuiet(j, dms)
    \/ ContentSteps
    \/ \E s \in Starters : EngageReturns(s)
    \/ \E r \in ManualReasons : Activate(r)
    \/ Resolve
    \/ \E v \in BOOLEAN : UpdateConfigLive(v)

(***************************************************************************)
(* db/models.py Tweet and ArmsLog, services/analytics.py                   *)
(* pull_and_update_metrics and services/experiments.py: the rows a job     *)
(* stores for a post, and the part of analytics_pull_job that runs from    *)
(* the return of x_client.metrics_for to the job's next await. Scores are  *)
(* counted in steps of 1 / MaxScore.                                       *)
(***************************************************************************)
TweetIds == 1 .. MaxTweets
Scores == 0 .. MaxScore

\* no row with that id yet
NoTweet == [stored |-> FALSE, measured |-> FALSE, j_score |-> NoScore]
NoArmsLog == [logged |-> FALSE, reward_j |-> NoScore, writes |-> 0]

AnalyticsInit ==
    /\ tweets = [t \in TweetIds |-> NoTweet]
    /\ arms_log = [t \in TweetIds |-> NoArmsLog]

\* the frame of the analytics actions
notAnalytics == <<crisisVars, writeVars, jpc, personaVars, runnerVars,
                  perceptionVars, selectorVars, threadVars, publishVars,
    receiptVars,
    notesVars,
    llmVars>>

\* Tweet(id=..., text=..., kind=...) as the jobs build it: j_score is left to
\* its default
NewTweet == [stored |-> TRUE, measured |-> FALSE, j_score |-> DefaultJScore]

\* log_arm_selection: reward_j=None
NewArmsLog == [logged |-> TRUE, reward_j |-> NoScore, writes |-> 0]

\* a job stores the post it has published and logs its arm
StorePost(t) ==
    /\ ~tweets[t].stored
    /\ tweets' = [tweets EXCEPT ![t] = NewTweet]
    /\ arms_log' = [arms_log EXCEPT ![t] = NewArmsLog]
    /\ UNCHANGED notAnalytics

\* update_arm_rewards' query: the logs without a reward
Pending(log) == log.logged /\ log.reward_j = NoScore

\* update_arm_rewards over the tweets as tw
update_arm_rewards(tw) ==
    [t \in TweetIds |->
        IF Pending(arms_log[t]) /\ tw[t].stored /\ tw[t].j_score # NoScore
        THEN [arms_log[t] EXCEPT !.reward_j = tw[t].j_score,
                                 !.writes = arms_log[t].writes + 1]
        ELSE arms_log[t]]

\* pull_and_update_metrics: the tweets the platform returned metrics for get
\* their j_score computed
pull_and_update_metrics(measured, score) ==
    [t \in TweetIds |->
        IF t \in measured
        THEN [tweets[t] EXCEPT !.measured = TRUE, !.j_score = score[t]]
        ELSE tweets[t]]

\* analytics_pull_job: the pull (which may find no tweet to update, no client
\* or no metrics for a tweet, or fail), then update_arm_rewards
AnalyticsPull(measured, score) ==
    /\ \A t \in measured : tweets[t].stored
    /\ tweets' = pull_and_update_metrics(measured, score)
    /\ arms_log' = update_arm_rewards(tweets')
    /\ UNCHANGED notAnalytics

AnalyticsNext ==
    \/ \E t \in TweetIds : StorePost(t)
    \/ \E m \in SUBSET TweetIds, sc \in [TweetIds -> Scores] : AnalyticsPull(m, sc)

(***************************************************************************)
(* services/perception.py: PerceptionService.ingest as perception_job      *)
(* calls it. An id is a string, modelled as the sequence of its            *)
(* characters' code points.                                                *)
(***************************************************************************)
\* the characters ids are made of here: "0", "1", "2" and "a"
Chars == {48, 49, 50, 97}
IdsOfLen(n) == [1 .. n -> Chars]
Ids == UNION {IdsOfLen(n) : n \in 1 .. MaxIdLen}

\* the ids "1" and "2"
NumericIds == {<<49>>, <<50>>}

\* None where an id is expected
NoId == <<>>

\* str.isdigit() for these characters
isdigit(s) == s # <<>> /\ \A i \in 1 .. Len(s) : s[i] >= 48 /\ s[i] <= 57

\* int(s) of a string of digits
RECURSIVE int(_)
int(s) ==
    IF s = <<>> THEN 0
    ELSE 10 * int(SubSeq(s, 1, Len(s) - 1)) + (s[Len(s)] - 48)

\* a > b on strings
RECURSIVE StrGreater(_, _)
StrGreater(a, b) ==
    IF a = <<>> THEN FALSE
    ELSE IF b = <<>> THEN TRUE
    ELSE IF Head(a) # Head(b) THEN Head(a) > Head(b)
    ELSE StrGreater(Tail(a), Tail(b))

\* one round of _latest_id's loop
LatestStep(candidate, text) ==
    IF candidate = NoId THEN text
    ELSE IF isdigit(text) /\ isdigit(candidate)
    THEN IF int(text) > int(candidate) THEN text ELSE candidate
    ELSE IF StrGreater(text, candidate) THEN text ELSE candidate

\* _latest_id(items, fallback=...), items given by their ids
RECURSIVE _latest_id(_, _)
_latest_id(items, fallback) ==
    IF items = <<>> THEN fallback
    ELSE _latest_id(Tail(items), LatestStep(fallback, Head(items)))

\* the sources of an ingest with a client
PerceptionSources == {"mentions", "home_timeline", "trending_topics", "voices"}

\* the lists of mentions, by id
MentionLists(ids) == UNION {[1 .. n -> ids] : n \in 0 .. MaxMentions}

\* variant of Fetched in which the failure still leaves what had arrived
FetchedDespiteFailure(failed, items) == items

\* _fetch_mentions, _fetch_timeline, _fetch_trends, _fetch_voice_activity:
\* the number of items a source contributes
Fetched(failed, items) == IF failed THEN 0 ELSE items

NoEvent == [src \in PerceptionSources |-> 0]

PerceptionInit ==
    /\ last_state = NoId
    /\ perception_state = NoId
    /\ sensed_events = 0
    /\ last_event = NoEvent
    /\ pin = [client |-> FALSE, failed |-> {}, mentions |-> 0]

\* the frame of the perception actions
notPerception == <<crisisVars, writeVars, jpc, personaVars, runnerVars,
                   analyticsVars, selectorVars, threadVars, publishVars,
    receiptVars,
    notesVars,
    llmVars>>

\* perception_job up to its call of evaluate_mentions: ingest(since_id=
\* _perception_state[...]) with or without a client, then _perception_state =
\* last_state. `mentions` is what get_mentions returns unless it fails; the
\* other sources return one item unless they fail.
Ingest(hasClient, failed, mentions) ==
    /\ sensed_events < MaxEvents
    /\ LET got == IF "mentions" \in failed THEN <<>> ELSE mentions
           latest_id == _latest_id(got, perception_state)
           new_since == IF hasClient /\ latest_id # NoId THEN latest_id
                        ELSE last_state
       IN  /\ last_state' = new_since
           /\ perception_state' = new_since
           /\ last_event' =
                 IF hasClient
                 THEN [src \in PerceptionSources |->
                          Fetched(src \in failed,
                                  IF src = "mentions" THEN Len(mentions) ELSE 1)]
                 ELSE NoEvent
    /\ sensed_events' = sensed_events + 1
    /\ pin' = [client |-> hasClient, failed |-> failed, mentions |-> Len(mentions)]
    /\ UNCHANGED notPerception

\* ingests whose mentions carry any ids, no source failing
CursorNext ==
    \E c \in BOOLEAN, ms \in MentionLists(Ids) : Ingest(c, {}, ms)

\* ingests with any sources failing, the mentions carrying numeric ids
PerceptionNext ==
    \E c \in BOOLEAN, f \in SUBSET PerceptionSources,
       ms \in MentionLists(NumericIds) : Ingest(c, f, ms)

(***************************************************************************)
(* The selector and its bandit (services/selector.py, services/bandit.py). *)
(* Rewards and J-scores are counted in units of 1/RewardUnit, averages of  *)
(* J-scores in hundredths, time in minutes.                                *)
(***************************************************************************)
ActionTypes == {"POST_PROPOSAL", "REPLY_MENTIONS", "SEARCH_ENGAGE",
                "POST_THREAD", "SEND_VALUE_DM", "REST"}
NoArm == "none"

\* Selector.min_intervals, in minutes
min_intervals ==
    [a \in ActionTypes |->
        CASE a = "POST_PROPOSAL" -> 45
          [] a = "REPLY_MENTIONS" -> 12
          [] a = "SEARCH_ENGAGE" -> 25
          [] a = "POST_THREAD" -> 180
          [] a = "SEND_VALUE_DM" -> 240
          [] a = "REST" -> 5]

dm_cooldown_minutes == 24 * 60

Levels == MIN_INTENSITY_LEVEL .. MAX_INTENSITY_LEVEL
\* the intensities a caller of record_outcome reports: the levels and, since
\* the value is stored as it comes, values outside of them
RecordedIntensities == 0 .. (MAX_INTENSITY_LEVEL + 2)

\* ArmState(): the prior of an arm
ArmState == [alpha |-> DefaultAlpha * RewardUnit,
             beta |-> DefaultBeta * RewardUnit, pulls |-> 0]

\* rewards in [0, 1], and the rewards a caller may pass
Rewards == 0 .. RewardUnit
RewardInputs == (0 - 1) .. (RewardUnit + 1)

\* ThompsonBandit.record_outcome with the whole reward counted as a failure too
record_outcome_full_failure(state, arm, reward) ==
    LET r == Max(0, Min(RewardUnit, reward))
    IN  [state EXCEPT ![arm] = [alpha |-> @.alpha + r,
                                beta |-> @.beta + RewardUnit,
                                pulls |-> @.pulls + 1]]

\* ThompsonBandit.record_outcome: the reward is clamped to [0, 1], added to
\* alpha, its complement added to beta, and the arm counts one more pull
record_outcome(state, arm, reward) ==
    LET r == Max(0, Min(RewardUnit, reward))
    IN  [state EXCEPT ![arm] = [alpha |-> @.alpha + r,
                                beta |-> @.beta + (RewardUnit - r),
                                pulls |-> @.pulls + 1]]

\* the crisis service the selector consults: Selector.__init__ is given none
\* by the runner or by the app, and builds a CrisisService of its own, whose
\* activate and update_metrics nothing calls
selector_crisis == [active |-> FALSE, last_signal |-> 0]

\* what the analytics service and the recent tweets tell a decision:
\* calculate_penalty_score, the average j_score of the last five tweets,
\* calculate_authority_signals
Signals == [penalty : {0, PenaltyStep, PenaltyDoubleStep},
            avg_j_score : {LowJ, LowJ + 1, HighJ},
            authority : {0, AuthorityStep}]
CalmSignals == [penalty |-> 0, avg_j_score |-> LowJ + 1, authority |-> 0]

_gather_signal_snapshot(sig) ==
    [penalty |-> sig.penalty, avg_j_score |-> sig.avg_j_score,
     authority |-> sig.authority,
     crisis_signal |-> selector_crisis.last_signal,
     crisis_active |-> selector_crisis.active,
     crisis_threshold |-> SignalThreshold]

NoTarget == 0
DmTargets == 1 .. MaxTargets
\* the lists of priority accounts perception returns: distinct targets, the
\* highest authority first
AccountLists ==
    {<<>>} \cup {<<t>> : t \in DmTargets}
           \cup {<<t, u>> : <<t, u>> \in {p \in DmTargets \X DmTargets : p[1] # p[2]}}

\* a decision: what decide_next_action returns and, for the record, the
\* minute it was taken and the minute of the previous selection of its type
NoDecision == [type |-> NoArm, reason |-> "none", intensity |-> NoLevel,
               recipient |-> NoTarget, at |-> NoTime, previous |-> NoTime]
IdleDm == [step |-> "idle", recipient |-> NoTarget]
NoSend == [at |-> NoTime, previous |-> NoTime]

SelectorInit(adaptive) ==
    /\ bandit = [a \in ActionTypes |-> ArmState]
    /\ last_actions = [a \in ActionTypes |-> NoTime]
    /\ last_arm = NoArm
    /\ last_intensity_by_action = [a \in ActionTypes |-> NoLevel]
    /\ last_successful_intensity = [a \in ActionTypes |-> NoLevel]
    /\ recent_dm_targets = [t \in DmTargets |-> NoTime]
    /\ utcnow = 0
    /\ decision = NoDecision
    /\ adaptive_intensity \in adaptive
    /\ dm_run = IdleDm
    /\ dm_log = [t \in DmTargets |-> NoSend]

\* the frame of the selector's actions
notSelector == <<crisisVars, writeVars, jpc, personaVars, runnerVars,
                 analyticsVars, perceptionVars, threadVars, publishVars,
    receiptVars,
    notesVars,
    llmVars>>

\* _get_available_actions with no cooldown
_get_available_actions_always == ActionTypes

\* _get_available_actions: REST, the actions never selected, and those whose
\* minimum interval has elapsed
_get_available_actions ==
    {a \in ActionTypes :
        \/ a = "REST"
        \/ last_actions[a] = NoTime
        \/ utcnow - last_actions[a] >= min_intervals[a]}

\* _select_dm_target with no cooldown
_select_dm_target_any(accounts) ==
    IF accounts = <<>> THEN NoTarget ELSE accounts[1]

\* _select_dm_target: the first qualified account that was not sent a DM
\* within the cooldown
_select_dm_target(accounts) ==
    LET eligible == {i \in DOMAIN accounts :
                        ~ (/\ recent_dm_targets[accounts[i]] # NoTime
                           /\ utcnow - recent_dm_targets[accounts[i]]
                                 < dm_cooldown_minutes)}
    IN  IF eligible = {} THEN NoTarget
        ELSE accounts[CHOOSE i \in eligible : \A k \in eligible : i <= k]

\* the baseline _get_action_parameters gives _select_intensity: `sampled` is
\* the intensity of the optimizer's sample, if it has one
BaselineOf(action_type, sampled) ==
    CASE action_type = "POST_PROPOSAL" ->
            Max(MIN_INTENSITY_LEVEL,
                Min(MAX_INTENSITY_LEVEL,
                    IF sampled = NoLevel THEN MIN_INTENSITY_LEVEL ELSE sampled))
      [] action_type = "POST_THREAD" ->
            IF sampled = NoLevel \/ sampled = 0 THEN MIN_INTENSITY_LEVEL + 1
            ELSE sampled
      [] action_type = "SEND_VALUE_DM" -> MIN_INTENSITY_LEVEL
      [] OTHER -> NoLevel

\* the step _select_intensity allows, with no limit
max_step_unlimited(crisis_active) == MAX_INTENSITY_LEVEL

\* the step _select_intensity allows from the previous intensity
max_step(crisis_active) == IF crisis_active THEN 2 ELSE 1

\* _select_intensity: the level it returns and records for the action
_select_intensity(action_type, baseline, snapshot) ==
    LET min_level == MIN_INTENSITY_LEVEL
        max_level == MAX_INTENSITY_LEVEL
        base == IF baseline # NoLevel THEN baseline
                ELSE IF last_successful_intensity[action_type] # NoLevel
                     THEN last_successful_intensity[action_type]
                ELSE IF last_intensity_by_action[action_type] # NoLevel
                     THEN last_intensity_by_action[action_type]
                ELSE min_level
        baseline_value == Max(min_level, Min(max_level, base))
        crisis_active == snapshot.crisis_active
        signalled == /\ snapshot.crisis_signal >= snapshot.crisis_threshold
                     /\ snapshot.crisis_threshold > 0
        a1 == IF snapshot.penalty >= PenaltyDoubleStep THEN 0 - 2
              ELSE IF snapshot.penalty >= PenaltyStep THEN 0 - 1 ELSE 0
        a2 == IF snapshot.avg_j_score >= HighJ THEN 1
              ELSE IF snapshot.avg_j_score <= LowJ /\ ~crisis_active
                   THEN 0 - 1 ELSE 0
        a3 == IF snapshot.authority >= AuthorityStep THEN 1 ELSE 0
        a4 == IF crisis_active THEN 0 - 2
              ELSE IF signalled THEN 0 - 1 ELSE 0
        sum == a1 + a2 + a3 + a4
        adjustments == IF crisis_active THEN Min(sum, 0 - 2)
                       ELSE IF signalled THEN Min(sum, 0 - 1) ELSE sum
        target == baseline_value + adjustments
        previous_value ==
            IF last_intensity_by_action[action_type] # NoLevel
            THEN last_intensity_by_action[action_type] ELSE baseline_value
        step == max_step(crisis_active)
        stepped == IF target > previous_value + step
                   THEN previous_value + step
                   ELSE IF target < previous_value - step
                        THEN previous_value - step ELSE target
    IN  IF ~adaptive_intensity THEN baseline_value
        ELSE Max(min_level, Min(max_level, stepped))

\* decide_next_action, from its call to its return: `quiet` is _is_quiet_hours,
\* `err` an exception of the persona store, the optimizer's session or the
\* account lookup, `selected` what the bandit's sampling picks among the
\* candidates
DecideNextAction(quiet, err, selected, sampled, sig, accounts) ==
    /\ selected \in _get_available_actions
    /\ IF quiet \/ err
       THEN /\ last_arm' = "REST"
            /\ decision' = [NoDecision EXCEPT
                              !.type = "REST",
                              !.reason = IF quiet THEN "quiet_hours" ELSE "error",
                              !.at = utcnow]
            /\ UNCHANGED <<last_actions, last_intensity_by_action>>
       ELSE LET level == IF selected = "REST" THEN NoLevel
                         ELSE _select_intensity(selected,
                                                BaselineOf(selected, sampled),
                                                _gather_signal_snapshot(sig))
                to == IF selected = "SEND_VALUE_DM"
                      THEN _select_dm_target(accounts) ELSE NoTarget
            IN  /\ last_intensity_by_action' =
                      IF selected = "REST" THEN last_intensity_by_action
                      ELSE [last_intensity_by_action EXCEPT ![selected] = level]
                /\ last_actions' = [last_actions EXCEPT ![selected] = utcnow]
                /\ last_arm' = selected
                /\ decision' = [type |-> selected, reason |-> "bandit_selection",
                                intensity |-> level, recipient |-> to,
                                at |-> utcnow,
                                previous |-> last_actions[selected]]
    /\ UNCHANGED <<bandit, last_successful_intensity, recent_dm_targets,
                   utcnow, adaptive_intensity, dm_log>>

\* a decision asked for by a job other than value_dm_job, or by the app
Decide(quiet, err, selected, sampled, sig, accounts) ==
    /\ DecideNextAction(quiet, err, selected, sampled, sig, accounts)
    /\ UNCHANGED dm_run
    /\ UNCHANGED notSelector

TotalPulls == bandit["POST_PROPOSAL"].pulls + bandit["REPLY_MENTIONS"].pulls
              + bandit["SEARCH_ENGAGE"].pulls + bandit["POST_THREAD"].pulls
              + bandit["SEND_VALUE_DM"].pulls + bandit["REST"].pulls

\* the metrics a caller of Selector.record_outcome passes: a j_score or none,
\* an intensity or none
Metrics(js, is) == [has_j : BOOLEAN, j_score : js, intensity : is]

\* Selector.record_outcome(metrics, arm)
RecordOutcome(m, arm) ==
    /\ TotalPulls < MaxPulls
    /\ LET arm_to_update == IF arm # NoArm THEN arm ELSE last_arm
           reward == IF m.has_j THEN m.j_score ELSE 0
       IN  IF arm_to_update = NoArm
           THEN UNCHANGED <<bandit, last_intensity_by_action,
                            last_successful_intensity>>
           ELSE LET intensity_used ==
                        IF m.intensity # NoLevel THEN m.intensity
                        ELSE last_intensity_by_action[arm_to_update]
                    stored == last_successful_intensity[arm_to_update]
                IN  /\ bandit' = record_outcome(bandit, arm_to_update, reward)
                    /\ IF intensity_used = NoLevel
                       THEN UNCHANGED <<last_intensity_by_action,
                                        last_successful_intensity>>
                       ELSE /\ last_intensity_by_action' =
                                  [last_intensity_by_action EXCEPT
                                      ![arm_to_update] = intensity_used]
                            /\ last_successful_intensity' =
                                  IF ~m.has_j THEN last_successful_intensity
                                  ELSE IF 100 * m.j_score
                                            >= SUCCESS_J_THRESHOLD * RewardUnit
                                  THEN [last_successful_intensity EXCEPT
                                           ![arm_to_update] = intensity_used]
                                  ELSE IF /\ 100 * m.j_score
                                               <= REGRESSION_J_THRESHOLD * RewardUnit
                                          /\ stored # NoLevel
                                          /\ stored > intensity_used
                                  THEN [last_successful_intensity EXCEPT
                                           ![arm_to_update] =
                                              Max(MIN_INTENSITY_LEVEL, intensity_used)]
                                  ELSE last_successful_intensity
    /\ UNCHANGED <<last_actions, last_arm, recent_dm_targets, utcnow, decision,
                   adaptive_intensity, dm_run, dm_log>>
    /\ UNCHANGED notSelector

\* time passes
Advance(d, cap) ==
    /\ utcnow + d <= cap
    /\ utcnow' = utcnow + d
    /\ UNCHANGED <<bandit, last_actions, last_arm, last_intensity_by_action,
                   last_successful_intensity, recent_dm_targets, decision,
                   adaptive_intensity, dm_run, dm_log>>
    /\ UNCHANGED notSelector

\* value_dm_job up to its call of generator.make_dm_copy: the crisis guard,
\* the decision, the recipient of the decision
ValueDmJob(selected, accounts) ==
    /\ dm_run.step = "idle"
    /\ guard
    /\ DecideNextAction(FALSE, FALSE, selected, NoLevel, CalmSignals, accounts)
    /\ dm_run' = IF decision'.type = "SEND_VALUE_DM"
                    /\ decision'.recipient # NoTarget
                 THEN [step |-> "generating", recipient |-> decision'.recipient]
                 ELSE IdleDm
    /\ UNCHANGED notSelector

\* make_dm_copy returns: an error or an empty copy ends the run, and so does
\* LIVE off or an unhealthy client, which logs the draft
DmCopyReturns(ok, sendable) ==
    /\ dm_run.step = "generating"
    /\ dm_run' = IF ok /\ sendable THEN [dm_run EXCEPT !.step = "sending"]
                 ELSE IdleDm
    /\ UNCHANGED <<bandit, last_actions, last_arm, last_intensity_by_action,
                   last_successful_intensity, recent_dm_targets, utcnow,
                   decision, adaptive_intensity, dm_log>>
    /\ UNCHANGED notSelector

\* mark_dm_sent
mark_dm_sent(target_id) ==
    [recent_dm_targets EXCEPT ![target_id] = utcnow]

\* x_client.send_dm returns: on success the target is marked
SendDmReturns(success) ==
    /\ dm_run.step = "sending"
    /\ recent_dm_targets' = IF success THEN mark_dm_sent(dm_run.recipient)
                            ELSE recent_dm_targets
    /\ dm_log' = IF success
                 THEN [dm_log EXCEPT ![dm_run.recipient] =
                                        [at |-> utcnow, previous |-> @.at]]
                 ELSE dm_log
    /\ dm_run' = IdleDm
    /\ UNCHANGED <<bandit, last_actions, last_arm, last_intensity_by_action,
                   last_successful_intensity, utcnow, decision,
                   adaptive_intensity>>
    /\ UNCHANGED notSelector

\* outcomes recorded for any arm, with any reward
BanditNext ==
    \E arm \in ActionTypes \cup {NoArm}, m \in Metrics(RewardInputs, {NoLevel}) :
        RecordOutcome(m, arm)

\* decisions of a selector as time passes
CooldownNext ==
    \/ \E a \in ActionTypes, q \in BOOLEAN, e \in BOOLEAN :
          Decide(q, e, a, NoLevel, CalmSignals, <<>>)
    \/ \E d \in {min_intervals["REPLY_MENTIONS"],
                 min_intervals["REPLY_MENTIONS"] + 1} : Advance(d, MaxMinutes)

\* decisions on two kinds of action (one that starts from the last
\* successful intensity, one that starts from a fixed baseline) under any
\* signals, and outcomes that report intensities
IntensityNext ==
    \/ \E a \in {"REPLY_MENTIONS", "POST_THREAD"}, sig \in Signals :
          Decide(FALSE, FALSE, a, NoLevel, sig, <<>>)
    \/ \E arm \in {NoArm, "REPLY_MENTIONS"},
          m \in Metrics({0, RewardUnit},
                        {NoLevel, MIN_INTENSITY_LEVEL, MAX_INTENSITY_LEVEL + 2}) :
          RecordOutcome(m, arm)
    \/ Advance(min_intervals["SEARCH_ENGAGE"], MaxMinutes)

\* decisions while the crisis is switched on and off from the dashboard
CrisisDecisionNext ==
    \/ \E a \in ActionTypes, sig \in Signals :
          Decide(FALSE, FALSE, a, NoLevel, sig, <<>>)
    \/ \E r \in ManualReasons : Activate(r)
    \/ Resolve

\* value DM runs over a day
ValueDmNext ==
    \/ \E a \in {"SEND_VALUE_DM", "REST"}, acc \in AccountLists :
          ValueDmJob(a, acc)
    \/ \E ok \in BOOLEAN, sendable \in BOOLEAN : DmCopyReturns(ok, sendable)
    \/ \E success \in BOOLEAN : SendDmReturns(success)
    \/ \E d \in {min_intervals["SEND_VALUE_DM"],
                 dm_cooldown_minutes - min_intervals["SEND_VALUE_DM"] - 1,
                 dm_cooldown_minutes - min_intervals["SEND_VALUE_DM"]} :
          Advance(d, MaxDay)

(***************************************************************************)
(* publish_thread_job (runner.py) over the multiplexer. The post id of the *)
(* k-th segment, when X creates it, is k; every dry-run identifier is      *)
(* DryRunId.                                                               *)
(***************************************************************************)
PlatformModes == {"broadcast", "weighted"}
NoThread == [step |-> "idle", posts |-> 0, index |-> 0,
             previous_tweet_id |-> NoPost, posted_ids |-> <<>>]

ThreadInit(modes) ==
    /\ platform_mode \in modes
    /\ thread = NoThread
    /\ calls = <<>>

\* the frame of the thread job's actions
notThread == <<crisisVars, writeVars, jpc, personaVars, runnerVars,
               analyticsVars, perceptionVars, publishVars,
    receiptVars,
    notesVars,
    llmVars>>

\* publish_thread_job up to its call of generator.make_thread: the crisis
\* guard and the decision
PublishThreadJob(selected) ==
    /\ thread.step = "idle"
    /\ guard
    /\ DecideNextAction(FALSE, FALSE, selected, NoLevel, CalmSignals, <<>>)
    /\ thread' = IF decision'.type = "POST_THREAD"
                 THEN [NoThread EXCEPT !.step = "planning"] ELSE NoThread
    /\ calls' = IF decision'.type = "POST_THREAD" THEN <<>> ELSE calls
    /\ UNCHANGED <<platform_mode, dm_run>>
    /\ UNCHANGED notThread

\* make_thread returns n posts; an error or an empty plan ends the run
MakeThreadReturns(n) ==
    /\ thread.step = "planning"
    /\ thread' = IF n = 0 THEN NoThread
                 ELSE [NoThread EXCEPT !.step = "publishing", !.posts = n,
                                       !.index = 1]
    /\ UNCHANGED <<platform_mode, calls, selectorVars>>
    /\ UNCHANGED notThread

\* previous_tweet_id after a publish that returned no X result
previous_without_x(prev) == NoPost

\* multiplexer.publish returns for the segment at thread.index. `has_x`: the
\* targets of this call include X (they always do in broadcast mode, weighted
\* mode draws one platform per call); `sent`: the X adapter had a client,
\* LIVE was on and the breaker closed, so that create_tweet called the API
\* with in_reply_to as it was given; `live`: X created the post, which it
\* does not when the call is not sent, when the write fails or when the post
\* it is to reply to is a dry-run identifier. The job then takes the next
\* segment, or ends after the last one or on the IndexError of
\* posted_ids[index - 1].
SegmentPublish(has_x, sent, live) ==
    /\ thread.step = "publishing"
    /\ platform_mode = "broadcast" => has_x
    /\ sent => has_x
    /\ live => sent /\ thread.previous_tweet_id # DryRunId
    /\ LET k == thread.index
           post_id == IF ~has_x THEN NoPost ELSE IF live THEN k ELSE DryRunId
           ids == IF has_x THEN Append(thread.posted_ids, post_id)
                  ELSE thread.posted_ids
           raises == live /\ k > 1 /\ Len(ids) < k - 1
           ref == IF live /\ k > 1 /\ ~raises THEN ids[k - 1] ELSE NoPost
       IN  /\ calls' = Append(calls,
                          [index |-> k,
                           in_reply_to |-> thread.previous_tweet_id,
                           x |-> has_x, sent |-> sent, post_id |-> post_id,
                           dry_run |-> has_x /\ ~live,
                           ref_tweet_id |-> ref])
           /\ thread' =
                 IF raises \/ k = thread.posts THEN NoThread
                 ELSE [thread EXCEPT
                         !.index = k + 1,
                         !.previous_tweet_id =
                             IF has_x THEN post_id
                             ELSE previous_without_x(thread.previous_tweet_id),
                         !.posted_ids = ids]
    /\ UNCHANGED <<platform_mode, selectorVars>>
    /\ UNCHANGED notThread

SegmentPublishReturns(has_x, live) ==
    \E sent \in BOOLEAN : SegmentPublish(has_x, sent, live)

\* thread runs, the crisis switched on and off from the dashboard
ThreadNext ==
    \/ \E a \in {"POST_THREAD", "REST"} : PublishThreadJob(a)
    \/ \E n \in 0 .. MaxSegments : MakeThreadReturns(n)
    \/ \E has_x \in BOOLEAN, live \in BOOLEAN : SegmentPublishReturns(has_x, live)
    \/ Advance(min_intervals["POST_THREAD"], min_intervals["POST_THREAD"])
    \/ \E r \in ManualReasons : Activate(r)
    \/ Resolve

(***************************************************************************)
(* The texts that reach the platforms: post_proposal_job (runner.py) with  *)
(* the generator's duplicate check (generator.py), and the calming message *)
(* of CrisisService._escalate. A text is a sequence of characters, each a  *)
(* number. similarity_threshold is in tenths.                              *)
(***************************************************************************)
similarity_threshold == 8

\* the drafts the language model returns: a text, the same text with its last
\* character changed, and with its last two characters changed
Draft == [i \in 1 .. TextLen |-> i]
DraftEdited == [Draft EXCEPT ![TextLen] = 0]
DraftReworded == [DraftEdited EXCEPT ![TextLen - 1] = 0]
Drafts == {Draft, DraftEdited, DraftReworded}

\* CrisisService._calming_message, a fixed text
_calming_message == [i \in 1 .. TextLen |-> TextLen + 1]

NoText == <<>>
NoProposal == [step |-> "idle", content |-> NoText]

\* the inner loop of levenshtein_distance: current_row for the i-th character
\* of a, `row` being the part of it built so far
RECURSIVE current_row(_, _, _, _)
current_row(char_a, b, previous_row, row) ==
    IF Len(row) = Len(b) + 1 THEN row
    ELSE LET j == Len(row)
             insert_cost == row[j] + 1
             delete_cost == previous_row[j + 1] + 1
             replace_cost == previous_row[j] + (IF char_a # b[j] THEN 1 ELSE 0)
         IN  current_row(char_a, b, previous_row,
                         Append(row, Min(insert_cost,
                                         Min(delete_cost, replace_cost))))

\* the outer loop of levenshtein_distance from the i-th character of a on
RECURSIVE last_row(_, _, _, _)
last_row(a, b, i, previous_row) ==
    IF i > Len(a) THEN previous_row
    ELSE last_row(a, b, i + 1, current_row(a[i], b, previous_row, <<i>>))

\* levenshtein_distance
levenshtein_distance(a, b) ==
    IF a = b THEN 0
    ELSE IF a = <<>> THEN Len(b)
    ELSE IF b = <<>> THEN Len(a)
    ELSE LET row == last_row(a, b, 1, [j \in 1 .. Len(b) + 1 |-> j - 1])
         IN  row[Len(row)]

\* similarity > self.similarity_threshold, similarity being
\* 1 - distance / max(len(content), len(text))
too_similar(content, text) ==
    LET longest == Max(Len(content), Len(text))
    IN  10 * (longest - levenshtein_distance(content, text))
            > similarity_threshold * longest

\* _check_for_duplicates over the recent Tweet rows: an equal hash or a
\* similarity over the threshold
_check_for_duplicates(content, rows) ==
    \E text \in rows : content = text \/ too_similar(content, text)

\* the duplicate check of _validate_and_refine: the content, the mutated
\* content when the content is a duplicate, NoText for the error when the
\* mutated content is one too
_validate_and_refine(content, mutated, rows) ==
    IF ~_check_for_duplicates(content, rows) THEN content
    ELSE IF ~_check_for_duplicates(mutated, rows) THEN mutated
    ELSE NoText

PublishInit ==
    /\ tweet_texts = {}
    /\ proposal = NoProposal
    /\ published = <<>>

\* the frame of the proposal job's actions
notPublish == <<crisisVars, writeVars, jpc, personaVars, runnerVars,
                analyticsVars, perceptionVars, threadVars,
    receiptVars,
    notesVars,
    llmVars>>

\* post_proposal_job up to its call of generator.make_proposal: the crisis
\* guard and the decision
PostProposalJob(selected) ==
    /\ proposal.step = "idle"
    /\ guard
    /\ DecideNextAction(FALSE, FALSE, selected, NoLevel, CalmSignals, <<>>)
    /\ proposal' = IF decision'.type = "POST_PROPOSAL"
                   THEN [NoProposal EXCEPT !.step = "generating"]
                   ELSE NoProposal
    /\ UNCHANGED <<tweet_texts, published, dm_run>>
    /\ UNCHANGED notPublish

\* make_proposal returns: the model drafted `content` and, asked to mutate it,
\* `mutated`; `passes` is the outcome of the other gates. An error ends the
\* run.
MakeProposalReturns(content, mutated, passes) ==
    /\ proposal.step = "generating"
    /\ LET result == IF passes
                     THEN _validate_and_refine(content, mutated, tweet_texts)
                     ELSE NoText
       IN  proposal' = IF result = NoText THEN NoProposal
                       ELSE [step |-> "publishing", content |-> result]
    /\ UNCHANGED <<tweet_texts, published, selectorVars>>
    /\ UNCHANGED notPublish

\* multiplexer.publish returns for the proposal; `live`: the X result is not a
\* dry run, and the job stores the Tweet row
ProposalPublishReturns(live) ==
    /\ proposal.step = "publishing"
    /\ live => Live /\ Len(published) < MaxPublished
    /\ proposal' = NoProposal
    /\ IF live
       THEN /\ published' = Append(published, [text |-> proposal.content,
                                               path |-> "proposal"])
            /\ tweet_texts' = tweet_texts \cup {proposal.content}
       ELSE UNCHANGED <<tweet_texts, published>>
    /\ UNCHANGED selectorVars
    /\ UNCHANGED notPublish

\* multiplexer.publish returns `receipts` for the calming message and
\* _escalate ends; a receipt that is not a dry run is a write of the message
CalmingPublishReturns(source, receipts) ==
    /\ _escalate_finish(source, receipts)
    /\ _validate_receipts(receipts) => Live /\ Len(published) < MaxPublished
    /\ published' = IF _validate_receipts(receipts)
                    THEN Append(published, [text |-> _calming_message,
                                            path |-> "crisis"])
                    ELSE published
    /\ UNCHANGED <<tweet_texts, proposal>>
    /\ UNCHANGED <<writeVars, jpc, personaVars, runnerVars, analyticsVars,
                   perceptionVars, selectorVars, threadVars, receiptVars,
                   notesVars, llmVars>>

\* proposal runs and crises over one cooldown of the proposal
PublishNext ==
    \/ \E a \in {"POST_PROPOSAL", "REST"} : PostProposalJob(a)
    \/ \E content \in Drafts, mutated \in Drafts, passes \in BOOLEAN :
          MakeProposalReturns(content, mutated, passes)
    \/ \E live \in BOOLEAN : ProposalPublishReturns(live)
    \/ Advance(min_intervals["POST_PROPOSAL"], min_intervals["POST_PROPOSAL"])
    \/ \E se \in {-1, 0} : EvaluateMentions(se, MaxVelocity, MaxAuthority)
    \/ \E dry \in BOOLEAN :
          CalmingPublishReturns("mentions", {[platform |-> "x", dry_run |-> dry]})
    \/ Resolve

(***************************************************************************)
(* The receipts gate of _validate_and_refine (generator.py) on proposals.  *)
(* A text is reduced to what the gate reads: its URL, as the sequence of   *)
(* the parts that follow "//", and whether it holds one of the keywords of *)
(* has_constructive_step. The parts of a URL: "h" a host name outside the  *)
(* whitelist, "g" a name ending in a whitelisted suffix, "/" and "?" the   *)
(* delimiters of the path and of the query.                                *)
(***************************************************************************)
NoUrl == <<>>
Urls == {<<"h">>, <<"g">>, <<"g", "/", "h">>, <<"h", "/", "g">>,
         <<"g", "?", "h">>, <<"h", "?", "g">>}
Proposals == [url : Urls \cup {NoUrl}, marker : BOOLEAN]
NoProposalText == [url |-> NoUrl, marker |-> FALSE]
NotGated == [step |-> "idle", text |-> NoProposalText, intensity |-> NoLevel]
NoPosted == [text |-> NoProposalText, intensity |-> NoLevel]

\* the part of `url` before its first part in `stops`
RECURSIVE UpTo(_, _)
UpTo(url, stops) ==
    IF url = <<>> \/ Head(url) \in stops THEN <<>>
    ELSE <<Head(url)>> \o UpTo(Tail(url), stops)

\* is_trusted: the text between "//" and the next "/" ends with a trusted
\* domain
is_trusted(url) ==
    LET domain == UpTo(url, {"/"})
    IN  domain # <<>> /\ domain[Len(domain)] = "g"

\* has_valid_citation
has_valid_citation(text) == text.url # NoUrl /\ is_trusted(text.url)

\* has_constructive_step
has_constructive_step(text) == text.marker

\* the checks of _validate_and_refine on a proposal that follow the duplicate
\* check: TRUE when the content is returned, FALSE when an error is
receipts_gate(text, intensity, guarded) ==
    /\ has_valid_citation(text)
    /\ intensity >= 3 =>
          /\ has_valid_citation(text)
          /\ guarded => has_constructive_step(text)

ReceiptsInit(guards) ==
    /\ ragebait_guard \in guards
    /\ gated = NotGated
    /\ last_posted = NoPosted

\* the frame of the gate's actions
notReceipt == <<crisisVars, writeVars, jpc, personaVars, runnerVars,
                analyticsVars, perceptionVars, selectorVars, threadVars,
                publishVars,
    notesVars,
    llmVars>>

\* post_proposal_job from its call of make_proposal, with the intensity of
\* the decision: the model drafted `text`, which has passed the checks before
\* the receipts gate; an error ends the run
MakeProposalGated(text, intensity) ==
    /\ gated.step = "idle"
    /\ gated' = IF receipts_gate(text, intensity, ragebait_guard)
                THEN [step |-> "publishing", text |-> text,
                      intensity |-> intensity]
                ELSE NotGated
    /\ UNCHANGED <<ragebait_guard, last_posted>>
    /\ UNCHANGED notReceipt

\* multiplexer.publish returns for the gated proposal; `live`: the write was
\* not a dry run
GatedPublishReturns(live) ==
    /\ gated.step = "publishing"
    /\ live => Live
    /\ gated' = NotGated
    /\ last_posted' = IF live THEN [text |-> gated.text,
                                    intensity |-> gated.intensity]
                      ELSE last_posted
    /\ UNCHANGED ragebait_guard
    /\ UNCHANGED notReceipt

ReceiptsNext ==
    \/ \E text \in Proposals, intensity \in Levels :
          MakeProposalGated(text, intensity)
    \/ \E live \in BOOLEAN : GatedPublishReturns(live)

(***************************************************************************)
(* Improvement notes: MemoryService.add_improvement_note (memory.py) and   *)
(* the /api/note endpoint (app.py) over the in-memory session              *)
(* (db/session.py).                                                        *)
(***************************************************************************)
max_improvement_notes == 100

NotesInit ==
    /\ notes = <<>>
    /\ notes_added = 0
    /\ note_result = "none"

\* the frame of the notes' actions
notNotes == <<crisisVars, writeVars, jpc, personaVars, runnerVars,
              analyticsVars, perceptionVars, selectorVars, threadVars,
              publishVars, receiptVars,
    llmVars>>

\* InMemorySession: the class has add, commit, rollback, close and query
session_has_delete == FALSE

\* the clean-up of add_improvement_note on the stored notes, the new one
\* included: at the limit it takes the oldest total - limit + 1 notes and
\* calls session.delete on the first, which the session does not have, so the
\* call raises AttributeError with every note still stored
trim(stored) ==
    IF Len(stored) >= max_improvement_notes
    THEN IF session_has_delete
         THEN [notes |-> SubSeq(stored, Len(stored) - max_improvement_notes + 2,
                                Len(stored)),
               raised |-> FALSE]
         ELSE [notes |-> stored, raised |-> TRUE]
    ELSE [notes |-> stored, raised |-> FALSE]

\* add_improvement_note, called by the feedback, reflection and planner
\* services
AddImprovementNote ==
    /\ notes_added < MaxNotes
    /\ LET r == trim(Append(notes, notes_added + 1))
       IN  /\ notes' = r.notes
           /\ note_result' = IF r.raised THEN "raised" ELSE "added"
    /\ notes_added' = notes_added + 1
    /\ UNCHANGED notNotes

\* POST /api/note: the note is added to the session and committed
AddNote ==
    /\ notes_added < MaxNotes
    /\ notes' = Append(notes, notes_added + 1)
    /\ notes_added' = notes_added + 1
    /\ note_result' = "posted"
    /\ UNCHANGED notNotes

NotesNext == AddImprovementNote \/ AddNote

(***************************************************************************)
(* services/llm_adapter.py: LLMAdapter.chat under its call budget. The     *)
(* jobs run as coroutines on one event loop: chat runs from its start to   *)
(* the await of the provider call in one step, and from the provider's     *)
(* answer to its return in another; other coroutines run in between.       *)
(***************************************************************************)
\* the jobs whose generator calls reach chat
Callers == {"post_proposal", "reply_mentions"}

\* LLMAdapter(): LLMBudget() with its counters at 0 and its reset times now
LLMInit ==
    /\ budget = [current_hour_calls |-> 0, current_day_calls |-> 0,
                 hour_reset_time |-> 0, day_reset_time |-> 0]
    /\ chat_pc = [c \in Callers |-> "idle"]
    /\ chat_ret = [c \in Callers |-> "none"]
    /\ clock = 0
    /\ hour_made = 0
    /\ day_made = 0

notLLM == <<crisisVars, writeVars, jpc, personaVars, runnerVars,
            analyticsVars, perceptionVars, selectorVars, threadVars,
            publishVars, receiptVars, notesVars>>

\* the budget after the two resets of _check_budget
reset_budget(b, t) ==
    LET h == IF t > b.hour_reset_time + 1
             THEN [b EXCEPT !.current_hour_calls = 0, !.hour_reset_time = t]
             ELSE b
    IN  IF t > h.day_reset_time + HoursPerDay
        THEN [h EXCEPT !.current_day_calls = 0, !.day_reset_time = t]
        ELSE h

\* _check_budget's result, on the budget it has reset
_check_budget(b) ==
    /\ b.current_hour_calls < max_calls_per_hour
    /\ b.current_day_calls < max_calls_per_day

\* _increment_budget
_increment_budget(b) ==
    [b EXCEPT !.current_hour_calls = @ + 1, !.current_day_calls = @ + 1]

\* chat up to the await: the budget check, then the template fallback or the
\* provider call
ChatStart(c) ==
    /\ chat_pc[c] = "idle"
    /\ LET b == reset_budget(budget, clock)
           hour_reset == b.hour_reset_time # budget.hour_reset_time
           day_reset == b.day_reset_time # budget.day_reset_time
       IN  /\ budget' = b
           /\ IF _check_budget(b)
              THEN /\ chat_pc' = [chat_pc EXCEPT ![c] = "awaiting"]
                   /\ chat_ret' = [chat_ret EXCEPT ![c] = "none"]
                   /\ hour_made' = (IF hour_reset THEN 0 ELSE hour_made) + 1
                   /\ day_made' = (IF day_reset THEN 0 ELSE day_made) + 1
              ELSE /\ chat_ret' = [chat_ret EXCEPT ![c] = "template"]
                   /\ hour_made' = IF hour_reset THEN 0 ELSE hour_made
                   /\ day_made' = IF day_reset THEN 0 ELSE day_made
                   /\ UNCHANGED chat_pc
    /\ UNCHANGED clock
    /\ UNCHANGED notLLM

\* the provider call returns or raises: a completed call is counted, a
\* failed one ends in the template fallback or in a raise and is not
ChatReturns(c, completed) ==
    /\ chat_pc[c] = "awaiting"
    /\ chat_pc' = [chat_pc EXCEPT ![c] = "idle"]
    /\ budget' = IF completed THEN _increment_budget(budget) ELSE budget
    /\ chat_ret' = [chat_ret EXCEPT ![c] = IF completed THEN "content"
                                           ELSE "failed"]
    /\ UNCHANGED <<clock, hour_made, day_made>>
    /\ UNCHANGED notLLM

\* an hour passes
HourPasses ==
    /\ clock < MaxClock
    /\ clock' = clock + 1
    /\ UNCHANGED <<budget, chat_pc, chat_ret, hour_made, day_made>>
    /\ UNCHANGED notLLM

\* the provider calls of this budget hour that failed
uncounted ==
    hour_made - budget.current_hour_calls
        - Cardinality({c \in Callers : chat_pc[c] = "awaiting"})

\* two jobs calling chat, as the hours pass; few of the calls fail
LLMNext ==
    \/ \E c \in Callers : ChatStart(c)
    \/ \E c \in Callers : ChatReturns(c, TRUE)
    \/ \E c \in Callers : uncounted < MaxUncounted /\ ChatReturns(c, FALSE)
    \/ HourPasses

\* the services of the learning loop and the thread job, ADAPTIVE_INTENSITY and
\* PLATFORM_MODE unset in the environment
LearningInit ==
    /\ AnalyticsInit /\ PerceptionInit /\ SelectorInit({FALSE})
    /\ ThreadInit({"broadcast"}) /\ PublishInit
    /\ ReceiptsInit({TRUE}) /\ NotesInit /\ LLMInit

JobsInit == jpc = [p \in Procs |-> "idle"]

\* The state after the modules are imported with LIVE unset in the environment.
Init == CrisisInit /\ ConfigInit(FALSE) /\ ClientInit /\ JobsInit /\ PersonaInit /\ RunnerInit /\ LearningInit

\* The state after start-up with ADAPTIVE_INTENSITY set to either value.
InitAnyIntensity ==
    /\ CrisisInit /\ ConfigInit(FALSE) /\ ClientInit /\ JobsInit /\ PersonaInit
    /\ RunnerInit /\ AnalyticsInit /\ PerceptionInit /\ SelectorInit(BOOLEAN)
    /\ ThreadInit({"broadcast"}) /\ PublishInit
    /\ ReceiptsInit({TRUE}) /\ NotesInit /\ LLMInit

\* The state after start-up with PLATFORM_MODE set to either mode.
InitAnyPlatformMode ==
    /\ CrisisInit /\ ConfigInit(FALSE) /\ ClientInit /\ JobsInit /\ PersonaInit
    /\ RunnerInit /\ AnalyticsInit /\ PerceptionInit /\ SelectorInit({FALSE})
    /\ ThreadInit(PlatformModes) /\ PublishInit
    /\ ReceiptsInit({TRUE}) /\ NotesInit /\ LLMInit

\* The bandit under recorded outcomes.
SpecBandit == Init /\ [][BanditNext]_vars

\* The selector's decisions over time.
SpecCooldown == Init /\ [][CooldownNext]_vars

\* The intensity policy under decisions and recorded outcomes.
SpecIntensity == InitAnyIntensity /\ [][IntensityNext]_vars

\* Decisions in and out of a crisis.
SpecCrisisDecision == InitAnyIntensity /\ [][CrisisDecisionNext]_vars

\* The thread job.
SpecThread == InitAnyPlatformMode /\ [][ThreadNext]_vars

\* The value DM job over a day.
SpecValueDm == Init /\ [][ValueDmNext]_vars

\* Posts, their metrics and their arm logs.
SpecAnalytics == Init /\ [][AnalyticsNext]_vars

\* The mentions cursor over ingests.
SpecCursor == Init /\ [][CursorNext]_vars

\* Ingests with failing sources.
SpecPerception == Init /\ [][PerceptionNext]_vars

\* The persona store alone.
SpecPersona == Init /\ [][PersonaNext]_vars

\* The crisis service under its callers: perception and analytics updates, the
\* dashboard's manual toggle, receipt recording.
SpecCrisis == Init /\ [][CrisisNext]_vars

\* the platform answers a call; it fails while the endpoint's failure count is
\* below MaxFailures
PlatformReturn(p, outcome, landed) ==
    /\ pc[p] = "calling"
    /\ outcome # "ok" =>
           circuit_breakers[call[p].endpoint].failure_count < MaxFailures
    /\ CallReturn(p, outcome, landed)

\* Writes on one keyed endpoint by two concurrent callers, with LIVE toggles.
WriteNext ==
    \/ \E p \in Procs, k \in Keys \cup {NoKey} :
          WriteBegin(p, "create_tweet", k, TRUE)
    \/ \E p \in Procs, o \in Outcomes, l \in BOOLEAN : PlatformReturn(p, o, l)
    \/ \E p \in Procs : SleepDone(p)
    \/ \E v \in BOOLEAN : UpdateConfigLive(v)

InitLiveOn ==
    CrisisInit /\ ConfigInit(TRUE) /\ ClientInit /\ JobsInit /\ PersonaInit /\ RunnerInit /\ LearningInit

SpecWrite == InitLiveOn /\ [][WriteNext]_vars

\* Unkeyed writes on two endpoints by one caller while time passes: the
\* circuit breakers and the retry loop.
BreakerNext ==
    \/ \E e \in Endpoints, en \in BOOLEAN : WriteBegin(1, e, NoKey, en)
    \/ \E o \in Outcomes : CallReturn(1, o, FALSE)
    \/ SleepDone(1)
    \/ Tick(1)

SpecBreaker == InitLiveOn /\ [][BreakerNext]_vars

\* One caller's unkeyed writes under LIVE toggles, with the scheduling the
\* event loop gives: the awaited platform call ends (asyncio.wait_for bounds it
\* by `timeout`) and asyncio.sleep ends.
RetryNext ==
    \/ \E e \in Endpoints, en \in BOOLEAN : WriteBegin(1, e, NoKey, en)
    \/ \E o \in Outcomes : CallReturn(1, o, FALSE)
    \/ SleepDone(1)
    \/ \E v \in BOOLEAN : UpdateConfigLive(v)

SpecRetry ==
    /\ InitLiveOn
    /\ [][RetryNext]_vars
    /\ WF_vars(\E o \in Outcomes : CallReturn(1, o, FALSE))
    /\ WF_vars(SleepDone(1))

\* One caller's writes under configuration updates and resets, with clients
\* built before and after them.
InitAnyEnv ==
    /\ CrisisInit /\ ClientInit /\ JobsInit /\ PersonaInit /\ RunnerInit /\ LearningInit
    /\ \E e \in BOOLEAN : ConfigInit(e)

LiveNext ==
    \/ \E e \in Endpoints : WriteBegin(1, e, NoKey, TRUE)
    \/ \E o \in {"ok", "error"} : CallReturn(1, o, FALSE)
    \/ \E v \in BOOLEAN : UpdateConfigLive(v)
    \/ ResetConfig
    \/ \E h \in BOOLEAN : NewClient(h)

SpecLive == InitAnyEnv /\ [][LiveNext]_vars

(***************************************************************************)
(* runner.py: an outbound job run (post_proposal_job, publish_thread_job): *)
(* the crisis guard, then the selector and the generator are awaited, then *)
(* multiplexer.publish (no idempotency key in the metadata).               *)
(***************************************************************************)

\* the job starts: it returns at once when the guard blocks it
JobStart(p) ==
    /\ jpc[p] = "idle"
    /\ IF guard
       THEN /\ jpc' = [jpc EXCEPT ![p] = "guarded"]
            /\ wev' = Event("job_guarded", p, "none", NoKey, FALSE)
       ELSE /\ wev' = Event("job_blocked", p, "none", NoKey, FALSE)
            /\ UNCHANGED jpc
    /\ UNCHANGED <<crisisVars, configVars, client, client_config, adapter_config,
                   idempotency_cache, circuit_breakers, pc, call, writes,
                   done_since_flip, now, personaVars, runnerVars,
                   analyticsVars, perceptionVars, selectorVars, threadVars,
                   publishVars, receiptVars, notesVars, llmVars>>

\* the selector chose another action or the generator returned an error
JobSkip(p) ==
    /\ jpc[p] = "guarded"
    /\ jpc' = [jpc EXCEPT ![p] = "idle"]
    /\ wev' = Event("job_skip", p, "none", NoKey, FALSE)
    /\ UNCHANGED <<crisisVars, configVars, client, client_config, adapter_config,
                   idempotency_cache, circuit_breakers, pc, call, writes,
                   done_since_flip, now, personaVars, runnerVars,
                   analyticsVars, perceptionVars, selectorVars, threadVars,
                   publishVars, receiptVars, notesVars, llmVars>>

\* await multiplexer.publish(...)
JobPublish(p) ==
    /\ jpc[p] = "guarded"
    /\ jpc' = [jpc EXCEPT ![p] = "publishing"]
    /\ _execute_write(p, "create_tweet", NoKey, TRUE)
    /\ UNCHANGED <<crisisVars, personaVars, runnerVars, analyticsVars,
                   perceptionVars, selectorVars, threadVars, publishVars,
                   receiptVars, notesVars, llmVars>>

\* the receipt is back: the job stores the post and ends
JobFinish(p) ==
    /\ jpc[p] = "publishing"
    /\ pc[p] = "idle"
    /\ jpc' = [jpc EXCEPT ![p] = "idle"]
    /\ wev' = Event("job_finish", p, "none", NoKey, FALSE)
    /\ UNCHANGED <<crisisVars, configVars, client, client_config, adapter_config,
                   idempotency_cache, circuit_breakers, pc, call, writes,
                   done_since_flip, now, personaVars, runnerVars,
                   analyticsVars, perceptionVars, selectorVars, threadVars,
                   publishVars, receiptVars, notesVars, llmVars>>

\* perception_job -> evaluate_mentions
PerceptionJob(sentiment, velocity, estimate) ==
    EvaluateMentions(sentiment, velocity, estimate)

\* analytics_pull_job -> update_metrics(source="analytics", authority, velocity)
AnalyticsJob(velocity, authority) ==
    UpdateMetrics("analytics", {}, {velocity}, {authority}, TRUE)

\* a perception run that finds no mentions: the signal is 0
QuietPerceptionJob == PerceptionJob(0, 0, MaxAuthority)

\* The crisis service under the jobs alone, nobody at the dashboard: the
\* perception job keeps running and an awaited publish returns.
RecoverNext ==
    \/ \E se \in Sentiments, v \in {0, 2, MaxVelocity}, e \in {1, MaxAuthority} :
          PerceptionJob(se, v, e)
    \/ \E v \in {0, 2, MaxVelocity}, a \in Authorities : AnalyticsJob(v, a)
    \/ \E s \in Sources, rs \in {{}, {[platform |-> "x", dry_run |-> TRUE]},
                                  {[platform |-> "x", dry_run |-> FALSE]}} :
          EscalateFinish(s, rs)

SpecRecover ==
    /\ InitLiveOn
    /\ [][RecoverNext]_vars
    /\ WF_vars(QuietPerceptionJob)
    /\ WF_vars(\E s \in Sources, rs \in ReceiptMaps : EscalateFinish(s, rs))

JobsNext ==
    \/ \E p \in Procs : JobStart(p)
    \/ \E p \in Procs : JobSkip(p)
    \/ \E p \in Procs : JobPublish(p)
    \/ \E p \in Procs : JobFinish(p)
    \/ \E p \in Procs, o \in {"ok", "error"} : CallReturn(p, o, FALSE)
    \/ \E se \in {-1, 0}, v \in {0, MaxVelocity} :
          PerceptionJob(se, v, MaxAuthority)
    \/ \E v \in {0, MaxVelocity}, a \in {1, MaxAuthority} : AnalyticsJob(v, a)
    \/ \E s \in Sources, dry \in BOOLEAN :
          EscalateFinish(s, {[platform |-> "x", dry_run |-> dry]})
    \/ \E v \in BOOLEAN : UpdateConfigLive(v)

SpecJobs == InitLiveOn /\ [][JobsNext]_vars

\* The runner started with LIVE on.
SpecRunner == InitLiveOn /\ [][RunnerNext]_vars

\* The state after start-up with LIVE on and RAGEBAIT_GUARD set to either
\* value.
InitAnyGuard ==
    /\ CrisisInit /\ ConfigInit(TRUE) /\ ClientInit /\ JobsInit /\ PersonaInit
    /\ RunnerInit /\ AnalyticsInit /\ PerceptionInit /\ SelectorInit({FALSE})
    /\ ThreadInit({"broadcast"}) /\ PublishInit /\ ReceiptsInit(BOOLEAN)
    /\ NotesInit /\ LLMInit

\* Improvement notes added by the services and through the API.
SpecNotes == Init /\ [][NotesNext]_vars

\* Proposals through the receipts gate.
SpecReceipts == InitAnyGuard /\ [][ReceiptsNext]_vars

\* analytics_pull_job's call selector.record_outcome(result): the result of
\* the pull carries the goal-aligned j_score when there were tweets to update
\* and only updated_count when there were none; no arm is passed
AnalyticsRecordOutcome(j_score) ==
    RecordOutcome([has_j |-> tweet_texts # {}, j_score |-> j_score,
                   intensity |-> NoLevel], NoArm)

\* proposals published and measured while other jobs ask for decisions
CreditNext ==
    \/ \E a \in {"POST_PROPOSAL", "REST"} : PostProposalJob(a)
    \/ \E passes \in BOOLEAN : MakeProposalReturns(Draft, DraftReworded, passes)
    \/ \E live \in BOOLEAN : ProposalPublishReturns(live)
    \/ \E a \in {"REPLY_MENTIONS", "REST"} :
          Decide(FALSE, FALSE, a, NoLevel, CalmSignals, <<>>)
    \/ \E j \in Rewards : AnalyticsRecordOutcome(j)
    \/ Advance(min_intervals["POST_PROPOSAL"], min_intervals["POST_PROPOSAL"])

\* Rewards credited after proposals, with LIVE on.
SpecCredit == InitLiveOn /\ [][CreditNext]_vars

\* the proposal job and the thread job, each given any of the two jobs' types
\* or REST by the selector
DiscardNext ==
    \/ \E a \in {"POST_PROPOSAL", "POST_THREAD", "REST"} : PostProposalJob(a)
    \/ \E passes \in BOOLEAN : MakeProposalReturns(Draft, DraftReworded, passes)
    \/ \E live \in BOOLEAN : ProposalPublishReturns(live)
    \/ \E a \in {"POST_PROPOSAL", "POST_THREAD", "REST"} : PublishThreadJob(a)
    \/ \E n \in {0, 1} : MakeThreadReturns(n)
    \/ \E live \in BOOLEAN : SegmentPublishReturns(TRUE, live)
    \/ Advance(min_intervals["POST_PROPOSAL"], min_intervals["POST_THREAD"])

\* Decisions the asking job may discard, with LIVE on.
SpecDiscard == InitLiveOn /\ [][DiscardNext]_vars

\* Two jobs calling chat, their calls overlapping.
SpecLLM == Init /\ [][LLMNext]_vars

\* The proposal job and the crisis service publishing with LIVE on.
SpecPublish == InitLiveOn /\ [][PublishNext]_vars

\* The outbound jobs' control flow.
SpecOutbound == InitLiveOn /\ [][OutboundNext]_vars

(***************************************************************************)
(* Properties of the crisis state machine (checked under SpecCrisis)       *)
(***************************************************************************)
HasRealReceipt == \E r \in last_receipts : ~r.dry_run
UpdateOps == {"update_escalate", "update_escalate_nomux", "update_hold",
              "update_recover"}

\* The signal current at the step just taken: the one update_metrics computed,
\* or the stored one when the step is not a metric update.
StepSignal == IF op' \in UpdateOps THEN ret_signal' ELSE last_signal

\* C1 (as stated): over any operations, manual resolve included, active never
\* turns false unless the current signal is at or below resume_threshold and a
\* recorded receipt has dry_run = false.
C1_AnyDeactivationNeedsLowSignalAndReceipt ==
    [][(active /\ ~active') =>
          (StepSignal <= ResumeThreshold /\ HasRealReceipt)]_vars

\* C1 (amended): active turns false only by a manual resolve, which is
\* unconditional, or by a metric update whose signal is at or below
\* resume_threshold while a recorded receipt has dry_run = false.
C1_AutoDeactivationNeedsLowSignalAndReceipt ==
    [][(active /\ ~active') =>
          \/ op' = "resolve"
          \/ /\ op' = "update_recover"
             /\ ret_signal' <= ResumeThreshold
             /\ receipts_validated
             /\ HasRealReceipt]_vars

\* a metric update has just returned the service to NORMAL
C1_Witness == op = "update_recover" /\ ~active /\ ret_signal > 0

\* C8 (as stated): every NORMAL -> PAUSED transition, whatever causes it, sets a
\* reason and publishes exactly one calming message, and none is published
\* while the state stays PAUSED.
C8_EveryPauseEntryPublishesOnce ==
    [][/\ (~active /\ active') => (reason' # None /\ calm_published' = 1)
       /\ (active /\ active') => calm_published' = calm_published]_vars

\* C8 (amended): every NORMAL -> PAUSED transition sets a reason; one caused by
\* a metric update that was given a multiplexer starts exactly one calming
\* publish, whose receipts go to record_receipts when it returns; a manual
\* activation or an update without multiplexer publishes none; no calming
\* message is published while the state stays PAUSED.
C8_MetricPauseEntryPublishesOnce ==
    [][/\ (~active /\ active') =>
            /\ reason' # None
            /\ op' \in {"update_escalate", "update_escalate_nomux", "activate"}
            /\ op' = "update_escalate" =>
                  (calm_published' = 1 /\ \E s \in Sources :
                       upc[s] = "idle" /\ upc'[s] = "publishing")
            /\ op' # "update_escalate" => (calm_published' = 0 /\ upc' = upc)
       /\ (active /\ active') =>
            (calm_published' = calm_published /\
             \A s \in Sources : upc'[s] = "publishing" => upc[s] = "publishing")
      ]_vars

\* a metric update has paused the service and its calming publish has returned
\* receipts that were recorded
C8_Witness ==
    /\ active /\ calm_published = 1 /\ op = "escalate_finish"
    /\ receipts_validated /\ HasRealReceipt

EntersCall(p) == pc[p] = "idle" /\ pc'[p] = "calling"

\* this step starts a platform call by p (first pass or a later pass)
StartsCall(p) == pc[p] # "calling" /\ pc'[p] = "calling"

\* this step returns a receipt with dry_run=false to p
ReturnsReal(p) == pc[p] = "calling" /\ pc'[p] = "idle" /\ wev'.real

\* C3: once a write with a given (endpoint, idempotency key) has succeeded on
\* an adapter, a later write call with the same pair (LIVE not switched off
\* in between) starts no platform call: it returns the default result.
C3_RepeatAfterSuccessMakesNoCall ==
    [][\A p \in Procs :
          EntersCall(p) =>
              <<call'[p].endpoint, call'[p].key>> \notin done_since_flip]_vars

\* a repeat of a succeeded write has just returned the default, with LIVE on
\* and the breaker closed, and the platform has performed one write
C3_Witness ==
    /\ wev.kind = "begin_default"
    /\ wev.key # NoKey
    /\ <<wev.endpoint, wev.key>> \in done_since_flip
    /\ Live /\ ~LiveOff
    /\ circuit_breakers[wev.endpoint].failure_count = 0
    /\ writes[wev.key] = 1

\* C6: at most one real platform write is performed per (endpoint,
\* idempotency key), across writes, retries, timeouts, failures and LIVE
\* off/on toggles.
C6_AtMostOneRealWritePerKey == \A k \in Keys : writes[k] <= 1

\* C7: two writes with the same (endpoint, idempotency key) are never both
\* inside the platform call.
C7_SameKeyWritesSerialized ==
    \A p, q \in Procs :
        (p # q /\ pc[p] = "calling" /\ pc[q] = "calling" /\ call[p].key # NoKey)
            => <<call[p].endpoint, call[p].key>> # <<call[q].endpoint, call[q].key>>

\* C10: when LIVE is turned on again, the idempotency cache holds no entry
\* recorded before or during the time LIVE was off.
C10_CacheEmptyOnResume ==
    [][(~Live /\ Live') => idempotency_cache' = {}]_vars

\* C5: no platform call is started on an endpoint whose circuit breaker is
\* open (the threshold reached, reset_timeout not yet elapsed since the last
\* failure), the later passes of a retry loop included.
C5_NoCallWhileBreakerOpen ==
    [][\A p \in Procs :
          StartsCall(p) =>
              ~is_open(circuit_breakers[call'[p].endpoint], now)]_vars

\* C4: a write call that finds get_config().LIVE false at its entry and at
\* its return does not return a receipt with dry_run=false, whatever updates
\* and resets came before and whenever the adapter was built.
C4_NoRealReceiptWhileLiveFalse ==
    [][\A p \in Procs : ReturnsReal(p) => (Live \/ call[p].live)]_vars

\* C2: no publish started by a scheduled job returns a receipt with
\* dry_run=false at a moment when the crisis state is active.
C2_NoRealReceiptForJobWhileCrisisActive ==
    [][\A p \in Procs :
          (ReturnsReal(p) /\ jpc[p] = "publishing") => ~active]_vars

(***************************************************************************)
(* Properties of the circuit breaker and the retry loop (SpecBreaker)      *)
(***************************************************************************)
\* C11: an endpoint's breaker is open exactly when at least failure_threshold
\* failures were recorded with no success in between and reset_timeout has
\* not elapsed since the last of them.
C11_OpenIffThresholdFailuresAndNotElapsed ==
    \A e \in Endpoints :
        LET b == circuit_breakers[e]
        IN  is_open(b, now) <=>
                (b.consecutive >= FailureThreshold /\ ~TimedOut(b, now))

\* the fields of CircuitBreaker that make its state
BreakerState(e) ==
    <<circuit_breakers[e].failure_count, circuit_breakers[e].last_failure_time>>

\* this step ends a platform call on e: _record_success or _record_failure runs
RecordsOn(e) ==
    \E p \in Procs :
        pc[p] = "calling" /\ pc'[p] # "calling" /\ call[p].endpoint = e

\* this step is a check of e's breaker that finds reset_timeout passed and
\* clears the count, leaving the time of the last failure
ResetByCheck(e) ==
    /\ circuit_breakers[e].failure_count >= FailureThreshold
    /\ TimedOut(circuit_breakers[e], now)
    /\ \E p \in Procs : pc[p] = "idle"
    /\ circuit_breakers'[e].failure_count = 0
    /\ circuit_breakers'[e].last_failure_time =
           circuit_breakers[e].last_failure_time

\* C12 (as stated): the failure count and the last-failure time of an endpoint
\* change only in a step that records a success or a failure for it.
C12_BreakerChangedOnlyByRecords ==
    [][\A e \in Endpoints :
          BreakerState(e)' # BreakerState(e) => RecordsOn(e)]_vars

\* C12 (amended): they change only in a step that records a success or a
\* failure for that endpoint, or in a check made after reset_timeout has
\* passed, which sets the count to zero.
C12_BreakerChangedByRecordsOrTimedOutCheck ==
    [][\A e \in Endpoints :
          BreakerState(e)' # BreakerState(e) =>
              (RecordsOn(e) \/ ResetByCheck(e))]_vars

\* a check has just cleared the count of a breaker that had opened
C12_Witness ==
    /\ wev.kind = "begin_call"
    /\ circuit_breakers[wev.endpoint].failure_count = 0
    /\ circuit_breakers[wev.endpoint].consecutive >= FailureThreshold
    /\ circuit_breakers[wev.endpoint].last_failure_time # NoTime

\* C13: a write call starts at most max_write_attempts platform calls, each
\* backoff sleep lasts at most 60 seconds, and the call ends, whatever
\* rate-limit errors the platform returns.
C13_WriteEndsWithinAttempts ==
    /\ [](\A p \in Procs : call[p].calls <= MaxWriteAttempts)
    /\ [](wev.sleep <= BackoffCap)
    /\ \A p \in Procs : (pc[p] # "idle") ~> (pc[p] = "idle")

\* the platform has rate-limited the last attempt a write is allowed
C13_Witness ==
    /\ pc[1] = "sleeping"
    /\ call[1].calls = MaxWriteAttempts
    /\ call[1].attempt = MaxWriteAttempts
    /\ wev.sleep > 0

PersonaWritten ==
    /\ pop' \in {"update", "rollback"}
    /\ Len(versions') = Len(versions) + 1

\* the version numbers that exist before a step: the rows' and the current one
ExistingVersions ==
    {versions[i].version : i \in 1 .. Len(versions)} \cup {current_version}

\* C15: after every successful update or rollback the new version is the
\* maximum of the existing version numbers plus one.
C15_NewVersionIsMaxPlusOne ==
    [][PersonaWritten =>
         \A m \in ExistingVersions :
             (\A v \in ExistingVersions : v <= m) => current_version' = m + 1]_vars

\* a payload with one of the faults the validators look for
Faulty(d) ==
    \/ d.mix < MixLow \/ d.mix > MixHigh
    \/ d.hlen > MaxHandleLen \/ ~d.alnum
    \/ d.beliefs # "ok"

\* C16: an update whose payload fails validation is rejected and leaves the
\* current persona, its version and hash, the file and the history unchanged.
C16_RejectedUpdateChangesNothing ==
    [][\A d \in {f \in Payloads : Faulty(f)} :
         (pop' \in {"update", "update_rejected"} /\ UpdatePersona(d)) =>
             /\ pop' = "update_rejected"
             /\ UNCHANGED <<persona_file, current_persona, current_version,
                            current_hash, versions>>]_vars

\* an update has just been rejected while version 2, written by an earlier
\* update, is the current one
C16_Witness ==
    /\ pop = "update_rejected"
    /\ Len(versions) = 1
    /\ current_version = 2
    /\ persona_file.kind = "doc"
    /\ persona_file.doc = current_persona

\* the last step returned a persona to its caller
PersonaServed == pop \in {"get", "load", "load_cached"}

\* persona.json is missing, does not parse or holds a faulty document
FileUnusable == persona_file.kind # "doc" \/ Faulty(persona_file.doc)

\* C17: every persona returned is a complete document without a validation
\* fault, and while the file is unusable a read returns the cached persona
\* and leaves it in place.
C17_ServedPersonaIsValidated ==
    /\ [](PersonaServed => (pret # NoDoc /\ pret.optionals /\ ~Faulty(pret)))
    /\ [][(pop' \in {"get", "load_cached"} /\ FileUnusable
             /\ (GetCurrentPersona \/ LoadPersona)) =>
              (pret' = current_persona /\ current_persona' = current_persona)]_vars

\* a read has just returned version 2 from the cache while a newer file holds
\* a document that fails validation
C17_Witness ==
    /\ pop = "get"
    /\ persona_file.kind = "doc"
    /\ Faulty(persona_file.doc)
    /\ persona_file.mtime > last_modified
    /\ pret = current_persona
    /\ current_version = 2

(***************************************************************************)
(* Runner claims.                                                          *)
(***************************************************************************)
\* C18: no two runs of the same job are in progress at once, whoever
\* started them.
C18_NoTwoInstancesOfAJob ==
    \A s1, s2 \in Starters :
        (s1 # s2 /\ runs[s1].step # "idle" /\ runs[s2].step # "idle")
            => runs[s1].job # runs[s2].job

\* the steps in which a run awaits the selector, the generator or a write
ActingSteps ==
    {"selecting", "generating", "publishing", "sending", "liking", "reposting"}
\* the steps in which a run awaits the publication of content
PublishingSteps == {"publishing", "sending"}

C21_RewardWrittenOnceWhenMeasured ==
    /\ [](\A t \in TweetIds :
              /\ arms_log[t].writes <= 1
              /\ arms_log[t].logged =>
                    (arms_log[t].reward_j # NoScore <=> tweets[t].measured))
    /\ [][\A t \in TweetIds :
              arms_log[t].reward_j # NoScore =>
                  arms_log'[t].reward_j = arms_log[t].reward_j]_vars

(***************************************************************************)
(* Perception claims.                                                      *)
(***************************************************************************)
\* a >= b on ids: by value when both are numeric, as strings otherwise
IdGeq(a, b) ==
    IF isdigit(a) /\ isdigit(b) THEN int(a) >= int(b) ELSE ~StrGreater(b, a)

\* C22: the mentions cursor never decreases from one ingest to the next.
C22_CursorNeverDecreases ==
    [][last_state # NoId => IdGeq(last_state', last_state)]_vars

\* C23: every ingest persists one SensedEvent; in it a source that failed has
\* no items and every other source has what it returned.
C23_OneEventPerIngestWithPartialPayload ==
    /\ [][sensed_events' = sensed_events + 1]_perceptionVars
    /\ [](pin.client =>
            \A src \in PerceptionSources :
                last_event[src] =
                    IF src \in pin.failed THEN 0
                    ELSE IF src = "mentions" THEN pin.mentions ELSE 1)

\* an ingest in which the timeline and the trends failed has recorded its two
\* mentions and the voices
C23_Witness ==
    /\ sensed_events = 2
    /\ pin.client
    /\ pin.failed = {"home_timeline", "trending_topics"}
    /\ last_event["mentions"] = 2
    /\ last_event["voices"] = 1
    /\ last_event["home_timeline"] = 0

(***************************************************************************)
(* Selector and bandit claims.                                             *)
(***************************************************************************)
\* C24: an outcome recorded for an arm with a reward r in [0, 1] adds r to the
\* arm's alpha, 1 - r to its beta and one to its pulls, and leaves the other
\* arms as they were.
C24_RecordOutcomeUpdatesPosterior ==
    [][bandit' # bandit =>
        \A arm \in ActionTypes, r \in Rewards :
            RecordOutcome([has_j |-> TRUE, j_score |-> r, intensity |-> NoLevel],
                          arm)
            => /\ bandit'[arm].alpha = bandit[arm].alpha + r
               /\ bandit'[arm].beta = bandit[arm].beta + (RewardUnit - r)
               /\ bandit'[arm].pulls = bandit[arm].pulls + 1
               /\ \A other \in ActionTypes \ {arm} :
                     bandit'[other] = bandit[other]]_vars

\* an arm that was rewarded 1/RewardUnit once and 1 once
C24_Witness ==
    /\ bandit["POST_THREAD"].pulls = 2
    /\ bandit["POST_THREAD"].alpha = ArmState.alpha + 1 + RewardUnit
    /\ bandit["POST_THREAD"].beta = ArmState.beta + (RewardUnit - 1)

\* C25: a decision returns a non-REST action only if the action was never
\* selected before or its minimum interval has elapsed since its previous
\* selection.
C25_SelectionsRespectMinInterval ==
    (decision.reason = "bandit_selection" /\ decision.type # "REST"
        /\ decision.previous # NoTime)
    => decision.at - decision.previous >= min_intervals[decision.type]

\* REPLY_MENTIONS selected again, twelve minutes after its first selection,
\* while SEARCH_ENGAGE, selected with it, is still cooling down
C25_Witness ==
    /\ decision.type = "REPLY_MENTIONS"
    /\ decision.previous = 0
    /\ decision.at = min_intervals["REPLY_MENTIONS"]
    /\ last_actions["SEARCH_ENGAGE"] = 0
    /\ "SEARCH_ENGAGE" \notin _get_available_actions

\* a recorded intensity taken into the configured levels
InLevels(x) == Max(MIN_INTENSITY_LEVEL, Min(MAX_INTENSITY_LEVEL, x))

C27_CrisisForcesMinimumIntensity ==
    [][\A a \in ActionTypes \ {"REST"} :
          (active /\ last_actions'[a] # last_actions[a])
          => decision'.intensity = MIN_INTENSITY_LEVEL]_vars

\* C28: a decision names a target for a value DM only if no DM was sent to it
\* in the 24 hours before, and two DMs sent to one target are at least 24
\* hours apart.
C28_NoValueDmWithinADay ==
    /\ [][(last_actions'["SEND_VALUE_DM"] # last_actions["SEND_VALUE_DM"]
           /\ decision'.recipient # NoTarget)
          => \/ dm_log[decision'.recipient].at = NoTime
             \/ utcnow - dm_log[decision'.recipient].at
                   >= dm_cooldown_minutes]_vars
    /\ [](\A t \in DmTargets :
            dm_log[t].previous # NoTime
            => dm_log[t].at - dm_log[t].previous >= dm_cooldown_minutes)

\* a target is sent its second DM a day after the first, and the other target
\* has had one in between
C28_Witness ==
    /\ dm_log[1] = [at |-> dm_cooldown_minutes, previous |-> 0]
    /\ dm_log[2].at = min_intervals["SEND_VALUE_DM"]

(***************************************************************************)
(* Thread claims.                                                          *)
(***************************************************************************)
\* C29: the publish calls of a thread run take its segments in order, and
\* every call after the first replies to the post id that the call before it
\* returned.
C29_SegmentsFormOneReplyChain ==
    \A k \in 1 .. Len(calls) :
        /\ calls[k].index = k
        /\ k > 1 => /\ calls[k].in_reply_to # NoPost
                    /\ calls[k].in_reply_to = calls[k - 1].post_id

\* C30: once a text has been written non-dry-run, no text that is equal to it
\* or over the similarity threshold relative to it is written non-dry-run
\* later, on any publish path.
C30_NoDuplicateWrittenLive ==
    \A i \in DOMAIN published, j \in DOMAIN published :
        i < j => /\ published[i].text # published[j].text
                 /\ ~too_similar(published[i].text, published[j].text)


\* the host of a URL: what precedes the path and the query
HostOf(url) == UpTo(url, {"/", "?"})

\* C31: a proposal of intensity 3 or more that was written non-dry-run holds a
\* URL whose host ends in a whitelisted suffix and a constructive-step marker,
\* whatever RAGEBAIT_GUARD is.
C31_HighIntensityProposalsCarryReceipts ==
    last_posted.intensity >= 3 =>
        /\ last_posted.text.url # NoUrl
        /\ HostOf(last_posted.text.url) # <<>>
        /\ HostOf(last_posted.text.url)[Len(HostOf(last_posted.text.url))] = "g"
        /\ last_posted.text.marker


\* C32: at most max_improvement_notes notes are stored, and they are the most
\* recently added ones, in the order of their addition.
C32_NotesAreTheMostRecent ==
    /\ Len(notes) <= max_improvement_notes
    /\ Len(notes) = Min(notes_added, max_improvement_notes)
    /\ \A i \in DOMAIN notes : notes[i] = notes_added - Len(notes) + i


C34_ValidatedReceiptKeptWhilePaused ==
    [][(active /\ receipts_validated /\ active') => receipts_validated']_vars


\* C35: whenever the runner's crisis service is paused, the snapshot the
\* selector gathers for a decision reports crisis_active.
C35_SelectorSeesTheCrisis ==
    active => \A sig \in Signals : _gather_signal_snapshot(sig).crisis_active


\* C36: a reward measured on stored posts is recorded on the arm that produced
\* them; here every stored post is a proposal.
C36_RewardGoesToTheProducingArm ==
    [][(bandit' # bandit /\ tweet_texts # {}) =>
          \A a \in ActionTypes :
              bandit'[a] # bandit[a] => a = "POST_PROPOSAL"]_vars


\* C37: the cooldown timestamp of the proposal or the thread action is set
\* only in a step in which the job of that action starts to carry it out.
C37_CooldownOnlyWhenCarriedOut ==
    [][/\ last_actions'["POST_PROPOSAL"] # last_actions["POST_PROPOSAL"]
          => proposal'.step = "generating"
       /\ last_actions'["POST_THREAD"] # last_actions["POST_THREAD"]
          => thread'.step = "planning"]_vars

\* C38: no publish call of a thread run reaches the platform API with
\* in_reply_to set to a dry-run identifier.
C38_NoRealWriteRepliesToDryRun ==
    \A k \in 1 .. Len(calls) : calls[k].sent => calls[k].in_reply_to # DryRunId

\* C39: an update that raises after validation leaves no PersonaVersion row
\* behind, the persona file as it was, and the current persona, version and
\* hash in memory as they were.
C39_FailedUpdateChangesNothing ==
    [][pop' = "update_failed" =>
           /\ versions' = versions
           /\ persona_file' = persona_file
           /\ current_persona' = current_persona
           /\ current_version' = current_version
           /\ current_hash' = current_hash]_vars

\* C40: the provider calls made within one budget hour never exceed the
\* per-hour limit, nor those made within one budget day the per-day limit.
C40_ProviderCallsWithinBudget ==
    /\ hour_made <= max_calls_per_hour
    /\ day_made <= max_calls_per_day

====
